---------------------------- MODULE Spec2Model ----------------------------
(***************************************************************************)
(* Budget-and-dayparting state machine of django-budget-system.            *)
(*                                                                         *)
(* Money is a scaled integer (hundredths of a currency unit): 60.00 is     *)
(* 6000.  An instant is a number of hours since the epoch, a Monday 00:00  *)
(* UTC that is also the first day of a month; a date is a number of days   *)
(* since the epoch.  The database tables are the variables brand,          *)
(* campaign, dayparting_schedule, spend_record and budget_summary; each    *)
(* running handler keeps the model instances it has loaded in its own      *)
(* record (task, reset_job, sweep), so a stale in-memory copy is a state   *)
(* of the model, and a handler's reads and writes are separate steps.      *)
(***************************************************************************)
EXTENDS Integers, Sequences, FiniteSets, Bags, TLC

VARIABLES
    now,                  \* the UTC clock, in hours since the epoch
    brand,                \* table brand: id -> row
    campaign,             \* table campaign: id -> row
    dayparting_schedule,  \* table dayparting_schedule: campaign -> set of rows
    spend_record,         \* table spend_record: a bag of rows
    budget_summary,       \* table budget_summary: <<brand, date>> -> row
    task,                 \* the record_spend invocation of each worker
    reset_job,            \* the running reset_daily/monthly_budgets
    sweep,                \* the running check_campaign_dayparting and
                          \* update_campaign_status
    toggle,               \* the running CampaignToggleView.post
    response              \* the last response of a view

vars == <<now, brand, campaign, dayparting_schedule, spend_record,
          budget_summary, task, reset_job, sweep, toggle, response>>

---------------------------------------------------------------------------
(* Bounds of the model. *)

NumWorkers == 2     \* workers that run record_spend concurrently
MaxRecords == 2     \* no invocation starts once the spend log is this long
MaxDate == 2        \* the clock stops at the end of this date
DaysPerMonth == 2   \* days of a model month
TickHours == 12     \* hours between two observations of the clock

Workers == 1 .. NumWorkers
Dates == 0 .. MaxDate

---------------------------------------------------------------------------
(* The entities.  Brand 1 owns campaigns 1 and 2, brand 2 owns campaign 3; *)
(* the id 0 names no row.                                                  *)

Brands == {1, 2}
Campaigns == {1, 2, 3}
BrandIds == {0} \cup Brands
CampaignIds == {0} \cup Campaigns

\* Campaign.STATUS_CHOICES
STATUS_CHOICES == {"ACTIVE", "PAUSED_BUDGET", "PAUSED_DAYPART", "INACTIVE"}

---------------------------------------------------------------------------
(* Calendar and time zones. *)

\* timezone.now().date(): the UTC date of an instant
utc_date(t) == t \div 24

\* date.replace(day=1)
first_day(d) == d - (d % DaysPerMonth)

\* Brand.get_local_time: the instant shifted to the brand's zone
get_local_time(b, t) == t + brand[b].utc_offset

\* datetime.weekday() and datetime.hour of a local time (0 = Monday)
weekday(lt) == (lt \div 24) % 7
hour(lt) == lt % 24

---------------------------------------------------------------------------
(* Budget ledger. *)

RECURSIVE SumBag(_, _)
SumBag(B, S) ==
    IF S = {} THEN 0
    ELSE LET r == CHOOSE x \in S : TRUE
         IN  r.amount * B[r] + SumBag(B, S \ {r})

\* _calculate_monthly_spend, without the lower end of the range.
calculate_spend_to_date(b, d) ==
    SumBag(spend_record,
           {r \in BagToSet(spend_record) :
               /\ r.brand = b
               /\ r.spend_date <= d})

\* BudgetSummary._calculate_monthly_spend
calculate_monthly_spend(b, d) ==
    SumBag(spend_record,
           {r \in BagToSet(spend_record) :
               /\ r.brand = b
               /\ r.spend_date >= first_day(d)
               /\ r.spend_date <= d})

\* BudgetSummary.save: the remaining fields recomputed from the spend fields
\* and the budgets of self.brand, the Brand instance the summary holds
save_summary(brand_obj, s) ==
    [s EXCEPT !.daily_remaining = brand_obj.daily_budget - s.daily_spend,
              !.monthly_remaining = brand_obj.monthly_budget - s.monthly_spend]

\* new_summary, with the defaults stored as they are given.
new_summary_from_defaults(brand_obj, b, d) ==
    [daily_spend |-> 0,
     monthly_spend |-> calculate_monthly_spend(b, d),
     daily_remaining |-> brand_obj.daily_budget,
     monthly_remaining |-> brand_obj.monthly_budget]

\* The row get_or_create_for_date inserts when (b, d) has none; brand_obj is
\* the Brand instance of id b the caller passes.
new_summary(brand_obj, b, d) ==
    save_summary(brand_obj,
                 [daily_spend |-> 0,
                  monthly_spend |-> calculate_monthly_spend(b, d),
                  daily_remaining |-> brand_obj.daily_budget,
                  monthly_remaining |-> brand_obj.monthly_budget])

\* BudgetSummary.get_or_create_for_date: the instance returned
get_or_create_for_date(brand_obj, b, d) ==
    IF <<b, d>> \in DOMAIN budget_summary
    THEN budget_summary[<<b, d>>]
    ELSE new_summary(brand_obj, b, d)

\* ... and the table afterwards
table_after_get_or_create(brand_obj, b, d) ==
    IF <<b, d>> \in DOMAIN budget_summary
    THEN budget_summary
    ELSE budget_summary @@ (<<b, d>> :> new_summary(brand_obj, b, d))

\* A Brand instance not loaded yet.
NoBrand ==
    [daily_budget |-> 0, monthly_budget |-> 0, utc_offset |-> 0,
     is_active |-> FALSE]

\* The Brand instance the summary returned by get_or_create_for_date holds:
\* the caller's when the call created the row, none when it fetched it.
brand_of_summary(brand_obj, b, d) ==
    IF <<b, d>> \in DOMAIN budget_summary THEN NoBrand ELSE brand_obj

\* self.brand of a summary of brand b: the instance it holds, or the row of
\* the brand table read at this first access.
self_brand(held, b) ==
    IF held = NoBrand THEN brand[b] ELSE held

\* has_budget_remaining, with a budget spent to the cent counted as remaining.
has_budget_remaining_inclusive(b, check_date) ==
    IF <<b, check_date>> \in DOMAIN budget_summary
    THEN /\ budget_summary[<<b, check_date>>].daily_remaining >= 0
         /\ budget_summary[<<b, check_date>>].monthly_remaining >= 0
    ELSE TRUE

\* Brand.has_budget_remaining(check_date)
has_budget_remaining(b, check_date) ==
    IF <<b, check_date>> \in DOMAIN budget_summary
    THEN /\ budget_summary[<<b, check_date>>].daily_remaining > 0
         /\ budget_summary[<<b, check_date>>].monthly_remaining > 0
    ELSE TRUE

---------------------------------------------------------------------------
(* Dayparting evaluator and campaign state machine. *)

\* is_within_dayparting_window, open on a day without a schedule.
is_within_fail_open(c, check_time) ==
    LET local_time == get_local_time(campaign[c].brand, check_time)
        schedules == {s \in dayparting_schedule[c] :
                        /\ s.day_of_week = weekday(local_time)
                        /\ s.is_active}
    IN  IF schedules = {} THEN TRUE
        ELSE \E s \in schedules :
                /\ s.start_hour <= hour(local_time)
                /\ hour(local_time) <= s.end_hour

\* is_within_dayparting_window, with the end hour itself outside the window.
is_within_end_exclusive(c, check_time) ==
    LET local_time == get_local_time(campaign[c].brand, check_time)
        schedules == {s \in dayparting_schedule[c] :
                        /\ s.day_of_week = weekday(local_time)
                        /\ s.is_active}
    IN  IF schedules = {} THEN FALSE
        ELSE \E s \in schedules :
                /\ s.start_hour <= hour(local_time)
                /\ hour(local_time) < s.end_hour

\* Campaign.is_within_dayparting_window(check_time)
is_within_dayparting_window(c, check_time) ==
    LET local_time == get_local_time(campaign[c].brand, check_time)
        schedules == {s \in dayparting_schedule[c] :
                        /\ s.day_of_week = weekday(local_time)
                        /\ s.is_active}
    IN  IF schedules = {} THEN FALSE
        ELSE \E s \in schedules :
                /\ s.start_hour <= hour(local_time)
                /\ hour(local_time) <= s.end_hour

\* can_run_now, without the test of the manual switch.
can_run_now_ignoring_switch(c, check_time) ==
    IF ~has_budget_remaining(campaign[c].brand, utc_date(now)) THEN FALSE
    ELSE is_within_dayparting_window(c, check_time)

\* can_run_now, without the test of the dayparting window.
can_run_now_ignoring_window(c, check_time) ==
    IF ~campaign[c].is_active THEN FALSE
    ELSE has_budget_remaining(campaign[c].brand, utc_date(now))

\* Campaign.can_run_now(check_time)
can_run_now(c, check_time) ==
    IF ~campaign[c].is_active THEN FALSE
    ELSE IF ~has_budget_remaining(campaign[c].brand, utc_date(now)) THEN FALSE
    ELSE is_within_dayparting_window(c, check_time)

---------------------------------------------------------------------------
(* The record_spend task.  Between two of its steps any other handler may  *)
(* run: the task holds no lock and opens no transaction.                   *)

NoSummary ==
    [daily_spend |-> 0, monthly_spend |-> 0,
     daily_remaining |-> 0, monthly_remaining |-> 0]

IdleTask ==
    [pc |-> "idle", brand_id |-> 0, campaign_id |-> 0, amount |-> 0,
     spend_date |-> 0, status |-> "NONE", brand |-> NoBrand,
     summary |-> NoSummary, summary_brand |-> NoBrand,
     result |-> "none", paused |-> FALSE, deliveries |-> 0]

NoneDate == -1   \* spend_datetime = None

\* A spend_datetime datetime.fromisoformat rejects (ValueError, tasks.py 190)
MalformedDatetime == -2

\* An amount Decimal(str(amount)) rejects (InvalidOperation, tasks.py 195)
UnparsableAmount == -999999

\* The task returns: its frame is gone, its result is kept for the caller.
returned(result, paused) ==
    [IdleTask EXCEPT !.result = result, !.paused = paused]

\* resolves, with the campaign looked up by id alone.
resolves_any_brand(brand_id, campaign_id) ==
    /\ brand_id \in Brands
    /\ brand[brand_id].is_active
    /\ campaign_id \in Campaigns
    /\ campaign[campaign_id].is_active

\* Brand.objects.get(id=brand_id, is_active=True), then
\* Campaign.objects.get(id=campaign_id, brand=brand, is_active=True)
resolves(brand_id, campaign_id) ==
    /\ brand_id \in Brands
    /\ brand[brand_id].is_active
    /\ campaign_id \in Campaigns
    /\ campaign[campaign_id].brand = brand_id
    /\ campaign[campaign_id].is_active

\* The max_retries each handler names in its except clause (tasks.py 44, 81,
\* 124, 167, 238)
max_retries(handler) ==
    IF handler = "record_spend" THEN 5 ELSE 3

\* tasks.py 236-238: the except clause of record_spend.  The function takes
\* no parameter self (tasks.py 171) and the module defines no such name, so
\* evaluating self.retry raises NameError: the invocation ends in failure and
\* no retry is scheduled.  The arguments stay with the dispatcher.
record_spend_except(brand_id, campaign_id, amount, deliveries) ==
    [IdleTask EXCEPT !.result = "failed",
                     !.brand_id = brand_id,
                     !.campaign_id = campaign_id,
                     !.amount = amount,
                     !.deliveries = deliveries]

\* tasks.py 188-203: the invocation up to the lookups: the date of the spend,
\* the amount, then brand and campaign by id.  A failed lookup returns
\* {"success": False}.
record_spend_begin(brand_id, campaign_id, amount, spend_datetime, deliveries) ==
    IF spend_datetime = MalformedDatetime \/ amount = UnparsableAmount
    THEN record_spend_except(brand_id, campaign_id, amount, deliveries)
    ELSE IF resolves(brand_id, campaign_id)
    THEN [IdleTask EXCEPT
            !.pc = "create_record",
            !.brand_id = brand_id,
            !.campaign_id = campaign_id,
            !.amount = amount,
            !.spend_date = IF spend_datetime = NoneDate
                           THEN utc_date(now) ELSE spend_datetime,
            !.status = campaign[campaign_id].status,
            !.brand = brand[brand_id],
            !.deliveries = deliveries]
    ELSE returned("invalid", FALSE)

\* Worker w starts an invocation of record_spend.
record_spend_start(w, brand_id, campaign_id, amount, spend_datetime) ==
    /\ task[w].pc = "idle"
    /\ BagCardinality(spend_record) < MaxRecords
    /\ task' = [task EXCEPT ![w] =
            record_spend_begin(brand_id, campaign_id, amount, spend_datetime, 0)]
    /\ UNCHANGED <<now, brand, campaign, dayparting_schedule, spend_record,
                   budget_summary, reset_job, toggle, response, sweep>>

\* The dispatcher delivers once more the invocation that failed on worker w;
\* the event carried no spend_datetime.
record_spend_redeliver(w) ==
    /\ task[w].pc = "idle"
    /\ task[w].result = "failed"
    /\ task[w].deliveries < max_retries("record_spend")
    /\ BagCardinality(spend_record) < MaxRecords
    /\ task' = [task EXCEPT ![w] =
            record_spend_begin(task[w].brand_id, task[w].campaign_id,
                               task[w].amount, NoneDate,
                               task[w].deliveries + 1)]
    /\ UNCHANGED <<now, brand, campaign, dayparting_schedule, spend_record,
                   budget_summary, reset_job, toggle, response, sweep>>

\* tasks.py 206-238: an exception (a database error, say) while the invocation
\* on worker w is at one of its steps leaves the try for the except clause.
record_spend_raise(w) ==
    /\ task[w].pc # "idle"
    /\ task' = [task EXCEPT ![w] =
            record_spend_except(task[w].brand_id, task[w].campaign_id,
                                task[w].amount, task[w].deliveries)]
    /\ UNCHANGED <<now, brand, campaign, dayparting_schedule, spend_record,
                   budget_summary, reset_job, toggle, response, sweep>>

\* tasks.py 206-213: SpendRecord.objects.create
record_spend_create(w) ==
    /\ task[w].pc = "create_record"
    /\ spend_record' = spend_record (+)
            SetToBag({[brand |-> task[w].brand_id,
                       campaign |-> task[w].campaign_id,
                       amount |-> task[w].amount,
                       spend_date |-> task[w].spend_date]})
    /\ task' = [task EXCEPT ![w].pc = "get_summary"]
    /\ UNCHANGED <<now, brand, campaign, dayparting_schedule, budget_summary,
                   reset_job, toggle, response, sweep>>

\* tasks.py 216: BudgetSummary.get_or_create_for_date(brand, spend_date)
record_spend_get_summary(w) ==
    /\ task[w].pc = "get_summary"
    /\ task' = [task EXCEPT
            ![w].summary = get_or_create_for_date(task[w].brand,
                                task[w].brand_id, task[w].spend_date),
            ![w].summary_brand = brand_of_summary(task[w].brand,
                                task[w].brand_id, task[w].spend_date),
            ![w].pc = "update_daily"]
    /\ budget_summary' = table_after_get_or_create(task[w].brand,
                                task[w].brand_id, task[w].spend_date)
    /\ UNCHANGED <<now, brand, campaign, dayparting_schedule, spend_record,
                   reset_job, toggle, response, sweep>>

\* update_daily_spend, without the save() that recomputes the remaining fields.
update_daily_spend_without_save(brand_obj, s, amount) ==
    [s EXCEPT !.daily_spend = s.daily_spend + amount]

\* BudgetSummary.update_daily_spend on the instance s: the instance afterwards
update_daily_spend(brand_obj, s, amount) ==
    save_summary(brand_obj, [s EXCEPT !.daily_spend = s.daily_spend + amount])

\* BudgetSummary.update_monthly_spend on the instance s: the instance afterwards
update_monthly_spend(brand_obj, s, amount) ==
    save_summary(brand_obj,
                 [s EXCEPT !.monthly_spend = s.monthly_spend + amount])

\* save(update_fields=['daily_spend', 'daily_remaining', ...]) of instance s
write_daily_fields(key, s) ==
    [budget_summary EXCEPT ![key].daily_spend = s.daily_spend,
                           ![key].daily_remaining = s.daily_remaining]

\* save(update_fields=['monthly_spend', 'monthly_remaining', ...]) of instance s
write_monthly_fields(key, s) ==
    [budget_summary EXCEPT ![key].monthly_spend = s.monthly_spend,
                           ![key].monthly_remaining = s.monthly_remaining]

\* tasks.py 217: summary.update_daily_spend(amount_decimal)
record_spend_update_daily(w) ==
    /\ task[w].pc = "update_daily"
    /\ LET held == self_brand(task[w].summary_brand, task[w].brand_id)
           s == update_daily_spend(held, task[w].summary, task[w].amount)
       IN  /\ task' = [task EXCEPT ![w].summary = s,
                                   ![w].summary_brand = held,
                                   ![w].pc = "update_monthly"]
           /\ budget_summary' =
                write_daily_fields(<<task[w].brand_id, task[w].spend_date>>, s)
    /\ UNCHANGED <<now, brand, campaign, dayparting_schedule, spend_record,
                   reset_job, toggle, response, sweep>>

\* tasks.py 218: summary.update_monthly_spend(amount_decimal)
record_spend_update_monthly(w) ==
    /\ task[w].pc = "update_monthly"
    /\ LET held == self_brand(task[w].summary_brand, task[w].brand_id)
           s == update_monthly_spend(held, task[w].summary, task[w].amount)
       IN  /\ task' = [task EXCEPT ![w].summary = s,
                                   ![w].summary_brand = held,
                                   ![w].pc = "check_budget"]
           /\ budget_summary' =
                write_monthly_fields(<<task[w].brand_id,
                                       task[w].spend_date>>, s)
    /\ UNCHANGED <<now, brand, campaign, dayparting_schedule, spend_record,
                   reset_job, toggle, response, sweep>>

\* budget_exceeded, with a budget spent to the cent not counted as reached.
budget_exceeded_strict(s, status) ==
    /\ s.daily_remaining < 0 \/ s.monthly_remaining < 0
    /\ status = "ACTIVE"

\* budget_exceeded, without the test of the campaign's status.
budget_exceeded_any_status(s, status) ==
    s.daily_remaining <= 0 \/ s.monthly_remaining <= 0

\* tasks.py 221-222: the condition under which record_spend pauses the campaign
budget_exceeded(s, status) ==
    /\ s.daily_remaining <= 0 \/ s.monthly_remaining <= 0
    /\ status = "ACTIVE"

\* pause_for_budget, writing the status of the other pause.
pause_for_budget_as_dayparting(c) ==
    [campaign EXCEPT ![c].status = "PAUSED_DAYPART"]

\* pause_for_budget, pausing every ACTIVE campaign of the campaign's brand.
pause_for_budget_whole_brand(c) ==
    [k \in Campaigns |->
        IF k = c \/ (campaign[k].brand = campaign[c].brand
                        /\ campaign[k].status = "ACTIVE")
        THEN [campaign[k] EXCEPT !.status = "PAUSED_BUDGET"]
        ELSE campaign[k]]

\* Campaign.pause_for_budget: save(update_fields=['status', 'updated_at'])
pause_for_budget(c) ==
    [campaign EXCEPT ![c].status = "PAUSED_BUDGET"]

\* tasks.py 221-234: pause the campaign if a limit is reached, then return
record_spend_check_budget(w) ==
    /\ task[w].pc = "check_budget"
    /\ IF budget_exceeded(task[w].summary, task[w].status)
       THEN /\ campaign' = pause_for_budget(task[w].campaign_id)
            /\ task' = [task EXCEPT ![w] = returned("ok", TRUE)]
       ELSE /\ campaign' = campaign
            /\ task' = [task EXCEPT ![w] = returned("ok", FALSE)]
    /\ UNCHANGED <<now, brand, dayparting_schedule, spend_record,
                   budget_summary, reset_job, toggle, response, sweep>>

---------------------------------------------------------------------------
(* Campaign.activate, and the views that call it. *)

\* activate, without the test of can_run_now.
activate_unchecked(c) ==
    [campaign EXCEPT ![c].status = "ACTIVE"]

\* Campaign.activate: the campaign table afterwards
activate(c) ==
    IF can_run_now(c, now)
    THEN [campaign EXCEPT ![c].status = "ACTIVE"]
    ELSE campaign

NoResponse ==
    [view |-> "none", code |-> 0, campaign_id |-> 0, at |-> 0,
     new_status |-> "NONE", can_run_now |-> FALSE,
     is_within_dayparting |-> FALSE,
     has_budget_remaining |-> FALSE]

IdleToggle == [pc |-> "idle", campaign_id |-> 0, status |-> "NONE"]

\* Campaign.objects.get(id=campaign_id, is_active=True)
campaign_found(campaign_id) ==
    /\ campaign_id \in Campaigns
    /\ campaign[campaign_id].is_active

toggle_response(campaign_id, code, new_status) ==
    [NoResponse EXCEPT !.view = "toggle", !.code = code,
                       !.campaign_id = campaign_id, !.at = now,
                       !.new_status = new_status]

\* CampaignToggleView.post up to the call of activate() (views.py 143-172)
CampaignToggleView_post(campaign_id, action) ==
    /\ toggle.pc = "idle"
    /\ IF action \notin {"activate", "deactivate"}
       THEN /\ response' = toggle_response(campaign_id, 400, "NONE")
            /\ UNCHANGED <<campaign, toggle>>
       ELSE IF ~campaign_found(campaign_id)
       THEN /\ response' = toggle_response(campaign_id, 404, "NONE")
            /\ UNCHANGED <<campaign, toggle>>
       ELSE IF action = "activate"
       THEN IF can_run_now(campaign_id, now)
            THEN /\ toggle' = [pc |-> "activate", campaign_id |-> campaign_id,
                                status |-> campaign[campaign_id].status]
                 /\ UNCHANGED <<campaign, response>>
            ELSE /\ response' = toggle_response(campaign_id, 400, "NONE")
                 /\ UNCHANGED <<campaign, toggle>>
       ELSE /\ campaign' = [campaign EXCEPT ![campaign_id].status = "INACTIVE"]
            /\ response' = toggle_response(campaign_id, 200, "INACTIVE")
            /\ UNCHANGED toggle
    /\ UNCHANGED <<now, brand, dayparting_schedule, spend_record,
                   budget_summary, task,  reset_job, sweep>>

\* views.py 161: campaign.activate(), then the 200 response
CampaignToggleView_activate ==
    /\ toggle.pc = "activate"
    /\ campaign' = activate(toggle.campaign_id)
    /\ response' = toggle_response(toggle.campaign_id, 200,
            IF can_run_now(toggle.campaign_id, now) THEN "ACTIVE"
            ELSE toggle.status)
    /\ toggle' = IdleToggle
    /\ UNCHANGED <<now, brand, dayparting_schedule, spend_record,
                   budget_summary, task,  reset_job, sweep>>

\* CampaignStatusView.get (views.py 71-136)
CampaignStatusView_get(campaign_id) ==
    /\ UNCHANGED <<now, brand, campaign, dayparting_schedule, spend_record,
                   task,  reset_job, toggle, sweep>>
    /\ IF ~campaign_found(campaign_id)
       THEN /\ response' = [NoResponse EXCEPT !.view = "status", !.code = 404,
                                !.campaign_id = campaign_id, !.at = now]
            /\ UNCHANGED budget_summary
       ELSE /\ budget_summary' =
                table_after_get_or_create(brand[campaign[campaign_id].brand],
                                          campaign[campaign_id].brand,
                                          utc_date(now))
            /\ response' =
                [view |-> "status", code |-> 200,
                 campaign_id |-> campaign_id, at |-> now,
                 new_status |-> campaign[campaign_id].status,
                 can_run_now |-> can_run_now(campaign_id, now)',
                 is_within_dayparting |->
                     is_within_dayparting_window(campaign_id, now)',
                 has_budget_remaining |->
                     has_budget_remaining(campaign[campaign_id].brand,
                                          utc_date(now))']

---------------------------------------------------------------------------
(* The methods of Campaign called on their own, with the result kept for   *)
(* the caller.                                                             *)

\* campaign.can_run_now(check_time) on campaign c
Campaign_can_run_now(c, check_time) ==
    /\ c \in Campaigns
    /\ response' = [NoResponse EXCEPT
            !.view = "can_run_now", !.campaign_id = c, !.at = check_time,
            !.can_run_now = can_run_now(c, check_time)]
    /\ UNCHANGED <<now, brand, campaign, dayparting_schedule, spend_record,
                   budget_summary, task, reset_job, toggle, sweep>>

\* campaign.is_within_dayparting_window(check_time) on campaign c
Campaign_is_within_dayparting_window(c, check_time) ==
    /\ c \in Campaigns
    /\ response' = [NoResponse EXCEPT
            !.view = "is_within_dayparting_window", !.campaign_id = c,
            !.at = check_time,
            !.is_within_dayparting = is_within_dayparting_window(c, check_time)]
    /\ UNCHANGED <<now, brand, campaign, dayparting_schedule, spend_record,
                   budget_summary, task, reset_job, toggle, sweep>>

\* campaign.activate() on campaign c, loaded just before
Campaign_activate(c) ==
    /\ c \in Campaigns
    /\ campaign' = activate(c)
    /\ response' = [NoResponse EXCEPT
            !.view = "activate", !.campaign_id = c, !.at = now,
            !.new_status = IF can_run_now(c, now) THEN "ACTIVE"
                           ELSE campaign[c].status]
    /\ UNCHANGED <<now, brand, dayparting_schedule, spend_record,
                   budget_summary, task, reset_job, toggle, sweep>>

\* BudgetSummary.get_or_create_for_date(brand, target_date), brand loaded just
\* before
BudgetSummary_get_or_create_for_date(b, target_date) ==
    /\ b \in Brands
    /\ budget_summary' = table_after_get_or_create(brand[b], b, target_date)
    /\ response' = [view |-> "get_or_create_for_date", brand_id |-> b,
                    date |-> target_date,
                    created |-> <<b, target_date>> \notin DOMAIN budget_summary,
                    summary |-> get_or_create_for_date(brand[b], b,
                                                       target_date)]
    /\ UNCHANGED <<now, brand, campaign, dayparting_schedule, spend_record,
                   task, reset_job, toggle, sweep>>

\* brand.has_budget_remaining(check_date) on brand b
Brand_has_budget_remaining(b, check_date) ==
    /\ b \in Brands
    /\ response' = [view |-> "has_budget_remaining", brand_id |-> b,
                    date |-> check_date,
                    result |-> has_budget_remaining(b, check_date)]
    /\ UNCHANGED <<now, brand, campaign, dayparting_schedule, spend_record,
                   budget_summary, task, reset_job, toggle, sweep>>

\* Campaign_set_is_active, with the status forced to INACTIVE when the switch
\* is turned off.
Campaign_set_is_active_forcing_status(c, value) ==
    /\ c \in Campaigns
    /\ campaign' = [campaign EXCEPT
            ![c].is_active = value,
            ![c].status = IF value THEN campaign[c].status ELSE "INACTIVE"]
    /\ UNCHANGED <<now, brand, dayparting_schedule, spend_record,
                   budget_summary, task, reset_job, sweep, toggle, response>>

\* campaign.is_active = value; campaign.save() on campaign c, loaded just
\* before (Campaign has no save() of its own)
Campaign_set_is_active(c, value) ==
    /\ c \in Campaigns
    /\ campaign' = [campaign EXCEPT ![c].is_active = value]
    /\ UNCHANGED <<now, brand, dayparting_schedule, spend_record,
                   budget_summary, task, reset_job, sweep, toggle, response>>

---------------------------------------------------------------------------
(* The reset jobs: reset_daily_budgets and reset_monthly_budgets differ    *)
(* only in the spend field they test and zero.                             *)

\* brands: the rows of the queryset still to visit, by id.
IdleJob ==
    [pc |-> "idle", kind |-> "none", today |-> 0, brands |-> <<>>, b |-> 0,
     brand |-> NoBrand, summary |-> NoSummary, summary_brand |-> NoBrand,
     campaigns |-> {}, c |-> 0, retries |-> 0, result |-> "none"]

\* retry, scheduling a retry whatever the count.
retry_always(retries, limit) ==
    "retry"

\* raise self.retry(exc=exc, countdown=..., max_retries=limit) in an attempt
\* whose request.retries is retries: another attempt is scheduled, or, with
\* the limit reached, exc is raised and the task has failed.
retry(retries, limit) ==
    IF retries < limit THEN "retry" ELSE "failed"

Min(S) == CHOOSE x \in S : \A y \in S : x <= y

\* for brand in brands: the next iteration, or the end of the job
next_brand(j) ==
    IF DOMAIN j.brands = {} THEN IdleJob
    ELSE LET b == Min(DOMAIN j.brands)
         IN  [j EXCEPT !.pc = "get_summary", !.b = b, !.brand = j.brands[b],
                       !.brands = [x \in DOMAIN j.brands \ {b} |-> j.brands[x]],
                       !.summary = NoSummary, !.summary_brand = NoBrand,
                       !.campaigns = {}, !.c = 0]

\* for campaign in paused_campaigns: the next iteration, or the next brand
next_campaign(j) ==
    IF j.campaigns = {} THEN next_brand(j)
    ELSE [j EXCEPT !.pc = "can_run", !.c = Min(j.campaigns),
                   !.campaigns = j.campaigns \ {Min(j.campaigns)}]

\* tasks.py 91-92 / 134-135: today, and Brand.objects.filter(is_active=True)
reset_start(kind) ==
    /\ reset_job.pc = "idle"
    /\ reset_job.result # "retry"
    /\ reset_job' = next_brand([IdleJob EXCEPT
            !.kind = kind, !.today = utc_date(now),
            !.brands = [b \in {x \in Brands : brand[x].is_active}
                            |-> brand[b]]])
    /\ UNCHANGED <<now, brand, campaign, dayparting_schedule, spend_record,
                   budget_summary, task,  toggle, response, sweep>>

\* The retry the except clause has scheduled starts: the task runs again
\* from its first line, with request.retries one higher.
reset_retry ==
    /\ reset_job.pc = "idle"
    /\ reset_job.result = "retry"
    /\ reset_job' = next_brand([IdleJob EXCEPT
            !.kind = reset_job.kind, !.today = utc_date(now),
            !.retries = reset_job.retries,
            !.brands = [b \in {x \in Brands : brand[x].is_active}
                            |-> brand[b]]])
    /\ UNCHANGED <<now, brand, campaign, dayparting_schedule, spend_record,
                   budget_summary, task,  toggle, response, sweep>>

\* tasks.py 122-124 / 165-167: an exception while a brand is handled leaves
\* the loop for the except clause.
reset_raise ==
    /\ reset_job.pc # "idle"
    /\ reset_job' =
          IF retry(reset_job.retries, max_retries(reset_job.kind)) = "retry"
          THEN [IdleJob EXCEPT !.result = "retry", !.kind = reset_job.kind,
                               !.retries = reset_job.retries + 1]
          ELSE [IdleJob EXCEPT !.result = "failed"]
    /\ UNCHANGED <<now, brand, campaign, dayparting_schedule, spend_record,
                   budget_summary, task,  toggle, response, sweep>>

\* summary.daily_spend > 0 (tasks.py 102) / summary.monthly_spend > 0 (145)
needs_reset(kind, s) ==
    IF kind = "daily" THEN s.daily_spend > 0 ELSE s.monthly_spend > 0

\* tasks.py 99-102 / 142-145: get or create today's summary, test its spend
reset_get_summary ==
    /\ reset_job.pc = "get_summary"
    /\ LET s == get_or_create_for_date(reset_job.brand, reset_job.b,
                                       reset_job.today)
       IN  reset_job' =
             IF needs_reset(reset_job.kind, s)
             THEN [reset_job EXCEPT
                     !.summary = s,
                     !.summary_brand = brand_of_summary(reset_job.brand,
                                            reset_job.b, reset_job.today),
                     !.pc = "reset"]
             ELSE next_brand(reset_job)
    /\ budget_summary' = table_after_get_or_create(reset_job.brand,
                                            reset_job.b, reset_job.today)
    /\ UNCHANGED <<now, brand, campaign, dayparting_schedule, spend_record,
                   task,  toggle, response, sweep>>

\* reset_daily_spend, saving the instance with its daily_spend as it was.
reset_daily_spend_keeping_spend(brand_obj, s) ==
    save_summary(brand_obj, s)

\* BudgetSummary.reset_daily_spend on the instance s: the instance afterwards
reset_daily_spend(brand_obj, s) ==
    save_summary(brand_obj, [s EXCEPT !.daily_spend = 0])

\* BudgetSummary.reset_monthly_spend on the instance s: the instance afterwards
reset_monthly_spend(brand_obj, s) ==
    save_summary(brand_obj, [s EXCEPT !.monthly_spend = 0])

\* tasks.py 103 / 146: summary.reset_daily_spend() / reset_monthly_spend()
reset_spend ==
    /\ reset_job.pc = "reset"
    /\ LET key == <<reset_job.b, reset_job.today>>
           held == self_brand(reset_job.summary_brand, reset_job.b)
           s == IF reset_job.kind = "daily"
                THEN reset_daily_spend(held, reset_job.summary)
                ELSE reset_monthly_spend(held, reset_job.summary)
       IN  /\ budget_summary' = IF reset_job.kind = "daily"
                                THEN write_daily_fields(key, s)
                                ELSE write_monthly_fields(key, s)
           /\ reset_job' = [reset_job EXCEPT !.summary = s,
                                             !.summary_brand = held,
                                             !.pc = "load_campaigns"]
    /\ UNCHANGED <<now, brand, campaign, dayparting_schedule, spend_record,
                   task,  toggle, response, sweep>>

\* tasks.py 108-113 / 151-156: brand.campaigns.filter(is_active=True,
\* status='PAUSED_BUDGET'), evaluated when the loop starts
reset_load_campaigns ==
    /\ reset_job.pc = "load_campaigns"
    /\ reset_job' = next_campaign([reset_job EXCEPT !.campaigns =
            {c \in Campaigns : /\ campaign[c].brand = reset_job.b
                               /\ campaign[c].is_active
                               /\ campaign[c].status = "PAUSED_BUDGET"}])
    /\ UNCHANGED <<now, brand, campaign, dayparting_schedule, spend_record,
                   budget_summary, task,  toggle, response, sweep>>

\* tasks.py 114 / 157: if campaign.can_run_now()
reset_can_run ==
    /\ reset_job.pc = "can_run"
    /\ reset_job' = IF can_run_now(reset_job.c, now)
                    THEN [reset_job EXCEPT !.pc = "activate"]
                    ELSE next_campaign(reset_job)
    /\ UNCHANGED <<now, brand, campaign, dayparting_schedule, spend_record,
                   budget_summary, task,  toggle, response, sweep>>

\* tasks.py 115 / 158: campaign.activate()
reset_activate ==
    /\ reset_job.pc = "activate"
    /\ campaign' = activate(reset_job.c)
    /\ reset_job' = next_campaign(reset_job)
    /\ UNCHANGED <<now, brand, dayparting_schedule, spend_record,
                   budget_summary, task,  toggle, response, sweep>>

---------------------------------------------------------------------------
(* The sweeps: check_campaign_dayparting ("dayparting") and                *)
(* update_campaign_status ("budget").  Each loads its campaigns once, with *)
(* the status they have then, and visits them in turn.                     *)

Sweeps == {"dayparting", "budget"}

\* loaded: the instances of the queryset, id -> status when loaded;
\* todo: the ids still to visit; c: the campaign being visited.
IdleSweep ==
    [pc |-> "idle", loaded |-> <<>>, todo |-> {}, c |-> 0, result |-> "none",
     retries |-> 0]

\* sweep_queryset, loading for either sweep the ACTIVE campaigns only.
sweep_queryset_without_paused(kind) ==
    {c \in Campaigns :
        /\ campaign[c].is_active
        /\ campaign[c].status = "ACTIVE"}

\* Campaign.objects.filter(is_active=True) (tasks.py 21), and with
\* status__in=['ACTIVE', 'PAUSED_BUDGET'] (tasks.py 54-57)
sweep_queryset(kind) ==
    {c \in Campaigns :
        /\ campaign[c].is_active
        /\ kind = "budget" => campaign[c].status \in {"ACTIVE", "PAUSED_BUDGET"}}

\* for campaign in campaigns: the next iteration, or the end of the run
next_in_sweep(j) ==
    IF j.todo = {} THEN IdleSweep
    ELSE [j EXCEPT !.pc = "check", !.c = Min(j.todo),
                   !.todo = j.todo \ {Min(j.todo)}]

\* tasks.py 21-24 / 54-61: the queryset is evaluated when the loop starts
sweep_start(kind) ==
    /\ sweep[kind].pc = "idle"
    /\ sweep[kind].result # "retry"
    /\ sweep' = [sweep EXCEPT ![kind] = next_in_sweep(
            [IdleSweep EXCEPT
                !.loaded = [c \in sweep_queryset(kind) |-> campaign[c].status],
                !.todo = sweep_queryset(kind)])]
    /\ UNCHANGED <<now, brand, campaign, dayparting_schedule, spend_record,
                   budget_summary, task, reset_job, toggle, response>>

\* The retry the except clause has scheduled starts: the task runs again
\* from its first line, with request.retries one higher.
sweep_retry(kind) ==
    /\ sweep[kind].pc = "idle"
    /\ sweep[kind].result = "retry"
    /\ sweep' = [sweep EXCEPT ![kind] = next_in_sweep(
            [IdleSweep EXCEPT
                !.loaded = [c \in sweep_queryset(kind) |-> campaign[c].status],
                !.todo = sweep_queryset(kind),
                !.retries = sweep[kind].retries])]
    /\ UNCHANGED <<now, brand, campaign, dayparting_schedule, spend_record,
                   budget_summary, task, reset_job, toggle, response>>

\* pause_for_dayparting, writing the status of the other pause.
pause_for_dayparting_as_budget(c) ==
    [campaign EXCEPT ![c].status = "PAUSED_BUDGET"]

\* Campaign.pause_for_dayparting: save(update_fields=['status', 'updated_at'])
pause_for_dayparting(c) ==
    [campaign EXCEPT ![c].status = "PAUSED_DAYPART"]

\* tasks.py 25-37: one campaign of check_campaign_dayparting, up to the call
\* of activate()
check_campaign_dayparting_check ==
    LET j == sweep["dayparting"]
    IN  /\ j.pc = "check"
        /\ IF is_within_dayparting_window(j.c, now)
           THEN /\ campaign' = campaign
                /\ sweep' = [sweep EXCEPT !["dayparting"] =
                      IF /\ j.loaded[j.c] = "PAUSED_DAYPART"
                         /\ has_budget_remaining(campaign[j.c].brand,
                                                 utc_date(now))
                      THEN [j EXCEPT !.pc = "activate"]
                      ELSE next_in_sweep(j)]
           ELSE /\ campaign' = IF j.loaded[j.c] = "ACTIVE"
                               THEN pause_for_dayparting(j.c)
                               ELSE campaign
                /\ sweep' = [sweep EXCEPT !["dayparting"] = next_in_sweep(j)]
        /\ UNCHANGED <<now, brand, dayparting_schedule, spend_record,
                       budget_summary, task, reset_job, toggle, response>>

\* tasks.py 61-73: one campaign of update_campaign_status, up to the call of
\* activate()
update_campaign_status_check ==
    LET j == sweep["budget"]
        has_budget == has_budget_remaining(campaign[j.c].brand, utc_date(now))
    IN  /\ j.pc = "check"
        /\ IF ~has_budget /\ j.loaded[j.c] = "ACTIVE"
           THEN /\ campaign' = pause_for_budget(j.c)
                /\ sweep' = [sweep EXCEPT !["budget"] = next_in_sweep(j)]
           ELSE /\ campaign' = campaign
                /\ sweep' = [sweep EXCEPT !["budget"] =
                      IF /\ has_budget
                         /\ j.loaded[j.c] = "PAUSED_BUDGET"
                         /\ is_within_dayparting_window(j.c, now)
                      THEN [j EXCEPT !.pc = "activate"]
                      ELSE next_in_sweep(j)]
        /\ UNCHANGED <<now, brand, dayparting_schedule, spend_record,
                       budget_summary, task, reset_job, toggle, response>>

\* tasks.py 30 / 73: campaign.activate()
sweep_activate(kind) ==
    /\ sweep[kind].pc = "activate"
    /\ campaign' = activate(sweep[kind].c)
    /\ sweep' = [sweep EXCEPT ![kind] = next_in_sweep(sweep[kind])]
    /\ UNCHANGED <<now, brand, dayparting_schedule, spend_record,
                   budget_summary, task, reset_job, toggle, response>>

\* tasks.py 42-44 / 79-81: an exception while a campaign is visited leaves
\* the loop for the except clause, which hands the task over for a retry.
sweep_raise(kind) ==
    /\ sweep[kind].pc \in {"check", "activate"}
    /\ sweep' = [sweep EXCEPT ![kind] =
          IF retry(sweep[kind].retries, max_retries(kind)) = "retry"
          THEN [IdleSweep EXCEPT !.result = "retry",
                                 !.retries = sweep[kind].retries + 1]
          ELSE [IdleSweep EXCEPT !.result = "failed"]]
    /\ UNCHANGED <<now, brand, campaign, dayparting_schedule, spend_record,
                   budget_summary, task, reset_job, toggle, response>>

---------------------------------------------------------------------------
(* The admin site. *)

\* BrandAdmin, fieldset 'Budget Settings': the budgets of brand b are saved
\* with new values; the form's validators admit positive amounts only.
BrandAdmin_save(b, daily_budget, monthly_budget) ==
    /\ b \in Brands
    /\ daily_budget > 0
    /\ monthly_budget > 0
    /\ brand' = [brand EXCEPT ![b].daily_budget = daily_budget,
                              ![b].monthly_budget = monthly_budget]
    /\ UNCHANGED <<now, campaign, dayparting_schedule, spend_record,
                   budget_summary, task, reset_job, toggle, response, sweep>>

---------------------------------------------------------------------------
(* The clock. *)

Tick ==
    /\ utc_date(now + TickHours) <= MaxDate
    /\ now' = now + TickHours
    /\ UNCHANGED <<brand, campaign, dayparting_schedule, spend_record,
                   budget_summary, task, reset_job, toggle, response, sweep>>

---------------------------------------------------------------------------
(* The steps of the handlers, grouped. *)

\* No handler is between two of its steps.
Quiet ==
    /\ \A w \in Workers : task[w].pc = "idle"
    /\ reset_job.pc = "idle"
    /\ \A kind \in Sweeps : sweep[kind].pc = "idle"
    /\ toggle.pc = "idle"

\* The steps that continue a running record_spend.
record_spend_step(w) ==
    \/ record_spend_create(w)
    \/ record_spend_get_summary(w)
    \/ record_spend_update_daily(w)
    \/ record_spend_update_monthly(w)
    \/ record_spend_check_budget(w)

\* The steps that continue a running sweep.
sweep_step ==
    \/ check_campaign_dayparting_check
    \/ update_campaign_status_check
    \/ \E kind \in Sweeps : sweep_activate(kind)

\* The steps that continue a running reset job.
reset_step ==
    \/ reset_get_summary
    \/ reset_spend
    \/ reset_load_campaigns
    \/ reset_can_run
    \/ reset_activate

---------------------------------------------------------------------------
(* Initial states: the tables after the fixtures are loaded, no handler    *)
(* running, nothing spent yet.                                             *)

BrandRow(daily, monthly, offset, active) ==
    [daily_budget |-> daily, monthly_budget |-> monthly,
     utc_offset |-> offset, is_active |-> active]

CampaignRow(b, status, active) ==
    [brand |-> b, status |-> status, is_active |-> active]

ScheduleRow(d, s, e, active) ==
    [day_of_week |-> d, start_hour |-> s, end_hour |-> e, is_active |-> active]

InitHandlers ==
    /\ task = [w \in Workers |-> IdleTask]
    /\ reset_job = IdleJob
    /\ sweep = [kind \in Sweeps |-> IdleSweep]
    /\ toggle = IdleToggle
    /\ response = NoResponse

InitLedger ==
    /\ spend_record = EmptyBag
    /\ budget_summary = [k \in {} |-> NoSummary]

\* Schedules that cover the whole model run for campaigns 1 and 3; campaign 2
\* has none.
AllWeek == {ScheduleRow(d, 0, 23, TRUE) : d \in 0 .. 6}

\* One brand with daily budget 100.00 and an ACTIVE campaign, always in window.
InitSpend ==
    /\ now = 0
    /\ \E monthly \in {15000, 100000} :
          brand = (1 :> BrandRow(10000, monthly, 0, TRUE))
               @@ (2 :> BrandRow(5000, 20000, 0, TRUE))
    /\ campaign = (1 :> CampaignRow(1, "ACTIVE", TRUE))
               @@ (2 :> CampaignRow(1, "PAUSED_DAYPART", TRUE))
               @@ (3 :> CampaignRow(2, "ACTIVE", TRUE))
    /\ dayparting_schedule = (1 :> AllWeek) @@ (2 :> {}) @@ (3 :> AllWeek)
    /\ InitLedger
    /\ InitHandlers

\* Concurrent record_spend tasks on one (brand, date), no other handler.
NextSpend ==
    \E w \in Workers :
        \/ \E amount \in {4000, 6000} :
                record_spend_start(w, 1, 1, amount, NoneDate)
        \/ record_spend_step(w)

SpecSpend == InitSpend /\ [][NextSpend]_vars

\* The recorded amounts of brand b dated d, and dated from the first of d's
\* month through d.
DailyTotal(b, d) ==
    SumBag(spend_record, {r \in BagToSet(spend_record) :
                            r.brand = b /\ r.spend_date = d})

MonthToDate(b, d) ==
    SumBag(spend_record, {r \in BagToSet(spend_record) :
                            /\ r.brand = b
                            /\ first_day(d) <= r.spend_date
                            /\ r.spend_date <= d})

\* C1: once every record_spend on a (brand, date) has returned, whatever the
\* interleaving of their steps, the stored daily_spend is the sum of the
\* recorded amounts.
C1_NoLostUpdate ==
    (\A w \in Workers : task[w].pc = "idle") =>
        \A k \in DOMAIN budget_summary :
            budget_summary[k].daily_spend = DailyTotal(k[1], k[2])

\* C2: two record_spend of 60.00 on the ACTIVE campaign of a brand with daily
\* budget 100.00 (monthly budget out of reach) end, in every interleaving,
\* with daily_spend 120.00, exactly one of them having paused the campaign.
SixtyTwice ==
    spend_record = (([brand |-> 1, campaign |-> 1, amount |-> 6000,
                      spend_date |-> 0]) :> 2)

C2_TwoConcurrentSpends ==
    (/\ brand[1].monthly_budget = 100000
     /\ SixtyTwice
     /\ \A w \in Workers : task[w].pc = "idle")
    => /\ budget_summary[<<1, 0>>].daily_spend = 12000
       /\ Cardinality({w \in Workers : task[w].paused}) = 1
       /\ campaign[1].status = "PAUSED_BUDGET"

\* Brand 1 with daily budget 100.00 and monthly budget 150.00; brand 2 is
\* switched off, campaign 2 has its manual switch off, campaign 3 belongs to
\* brand 2.
InitSeq ==
    /\ now = 0
    /\ brand = (1 :> BrandRow(10000, 15000, 0, TRUE))
             @@ (2 :> BrandRow(10000, 20000, 0, FALSE))
    /\ \E st \in {"ACTIVE", "PAUSED_DAYPART"} :
          campaign = (1 :> CampaignRow(1, st, TRUE))
                  @@ (2 :> CampaignRow(1, "ACTIVE", FALSE))
                  @@ (3 :> CampaignRow(2, "ACTIVE", TRUE))
    /\ dayparting_schedule = (1 :> AllWeek) @@ (2 :> {}) @@ (3 :> AllWeek)
    /\ InitLedger
    /\ InitHandlers

\* <<brand_id, campaign_id>> of the invocations: a campaign of its brand, an
\* unknown brand, an unknown campaign, a campaign switched off, a campaign of
\* another brand, and the campaign of brand 2.
SeqIds == {<<1, 1>>, <<0, 1>>, <<1, 0>>, <<1, 2>>, <<1, 3>>, <<2, 3>>}

\* The amounts of the invocations: nothing, 40.00 and 60.00.
SeqAmounts == {0, 4000, 6000}

\* record_spend invocations one after the other, on any date of the run, with
\* the clock moving between them.
NextSeq ==
    \/ /\ Quiet
       /\ \E ids \in SeqIds, amount \in SeqAmounts,
             spend_datetime \in {NoneDate} \cup Dates :
                record_spend_start(1, ids[1], ids[2], amount, spend_datetime)
    \/ record_spend_step(1)
    \/ Quiet /\ Tick

SpecSeq == InitSeq /\ [][NextSeq]_vars

---------------------------------------------------------------------------
(* Claims about one record_spend at a time (SpecSeq). *)

\* The spends of brand b up to the one in hand come in date order within the
\* month of d.
NonDecreasing(b, d) ==
    \A r \in BagToSet(spend_record) :
        r.brand = b => /\ r.spend_date <= d
                       /\ first_day(r.spend_date) = first_day(d)

\* C4: in a sequential run of record_spend calls of one brand within one
\* month, in date order and without resets, once a call has updated the
\* ledger the monthly_spend of the summary of its date is the sum of the
\* brand's recorded amounts from the first of the month through that date.
C4_NoDoubleCount ==
    \A w \in Workers :
        (/\ task[w].pc = "check_budget"
         /\ NonDecreasing(task[w].brand_id, task[w].spend_date))
        => LET row == budget_summary[<<task[w].brand_id, task[w].spend_date>>]
           IN  row.monthly_spend
                 = MonthToDate(task[w].brand_id, task[w].spend_date)

\* C8: the record_spend task rejects an amount <= 0: no invocation with such
\* an amount gets past its validation, and no such SpendRecord exists.
C8_RejectsNonPositive ==
    /\ \A w \in Workers : task[w].pc # "idle" => task[w].amount > 0
    /\ \A r \in BagToSet(spend_record) : r.amount > 0

\* The ids name no active brand, or no active campaign of that brand.
Unresolvable(brand_id, campaign_id) ==
    \/ brand_id \notin Brands
    \/ campaign_id \notin Campaigns
    \/ /\ brand_id \in Brands
       /\ campaign_id \in Campaigns
       /\ \/ ~brand[brand_id].is_active
          \/ ~campaign[campaign_id].is_active
          \/ campaign[campaign_id].brand # brand_id

\* C9: record_spend with a brand id that is unknown or inactive, or a
\* campaign id that is unknown, inactive or of another brand, returns a
\* failure and changes no SpendRecord, BudgetSummary or campaign status.
C9_InvalidIdsLeaveState ==
    [][\A w \in Workers, ids \in SeqIds :
          (/\ Unresolvable(ids[1], ids[2])
           /\ \E amount \in SeqAmounts, spend_datetime \in {NoneDate} \cup Dates :
                record_spend_start(w, ids[1], ids[2], amount, spend_datetime))
          => /\ task'[w].pc = "idle"
             /\ task'[w].result = "invalid"
             /\ UNCHANGED <<spend_record, budget_summary, campaign>>]_vars

\* A lookup has failed, and the ledger is as it was.
C9_Witness ==
    /\ \E w \in Workers : task[w].result = "invalid"
    /\ spend_record = EmptyBag
    /\ DOMAIN budget_summary = {}

\* C10: when a successful record_spend returns, the campaign that was ACTIVE
\* is PAUSED_BUDGET if the stored summary of the spend's date has
\* daily_remaining <= 0 or monthly_remaining <= 0; otherwise its status is
\* the one it had when the call began.
C10_PauseOnExhaustion ==
    /\ [](\A w \in Workers : task[w].pc # "idle" =>
                campaign[task[w].campaign_id].status = task[w].status)
    /\ [][\A w \in Workers :
            (task[w].pc = "check_budget" /\ task'[w].pc = "idle") =>
            LET c == task[w].campaign_id
                row == budget_summary[<<task[w].brand_id, task[w].spend_date>>]
            IN  /\ task'[w].result = "ok"
                /\ campaign'[c].status =
                      IF /\ row.daily_remaining <= 0
                            \/ row.monthly_remaining <= 0
                         /\ campaign[c].status = "ACTIVE"
                      THEN "PAUSED_BUDGET"
                      ELSE campaign[c].status]_vars

\* A spend has taken daily_remaining to exactly 0 and paused the campaign.
C10_Witness ==
    \E w \in Workers :
        /\ task[w].paused
        /\ campaign[1].status = "PAUSED_BUDGET"
        /\ \E k \in DOMAIN budget_summary :
                budget_summary[k].daily_remaining = 0

---------------------------------------------------------------------------
(* Every writer of BudgetSummary at once (SpecWriters): record_spend, the  *)
(* reset jobs running beside it, and the admin changing the budgets.       *)

\* Brand 1 alone is switched on; its campaign 1 is ACTIVE and always in window.
InitWriters ==
    /\ now = 0
    /\ brand = (1 :> BrandRow(10000, 15000, 0, TRUE))
             @@ (2 :> BrandRow(10000, 20000, 0, FALSE))
    /\ campaign = (1 :> CampaignRow(1, "ACTIVE", TRUE))
                @@ (2 :> CampaignRow(1, "ACTIVE", FALSE))
                @@ (3 :> CampaignRow(2, "ACTIVE", TRUE))
    /\ dayparting_schedule = (1 :> AllWeek) @@ (2 :> {}) @@ (3 :> AllWeek)
    /\ InitLedger
    /\ InitHandlers

\* <<daily_budget, monthly_budget>> the admin chooses between for brand 1.
BudgetChoices == {<<10000, 15000>>, <<20000, 20000>>}

\* All of it within one day.
NextWriters ==
    \/ record_spend_start(1, 1, 1, 6000, NoneDate)
    \/ record_spend_step(1)
    \/ \E kind \in {"daily", "monthly"} : reset_start(kind)
    \/ reset_step
    \/ \E budgets \in BudgetChoices : BrandAdmin_save(1, budgets[1], budgets[2])

SpecWriters == InitWriters /\ [][NextWriters]_vars

\* The stored row k = <<brand, date>> agrees with the budgets of its brand.
RowConsistent(k) ==
    /\ budget_summary[k].daily_remaining + budget_summary[k].daily_spend
            = brand[k[1]].daily_budget
    /\ budget_summary[k].monthly_remaining + budget_summary[k].monthly_spend
            = brand[k[1]].monthly_budget

\* C3: after any write to a BudgetSummary (the row is created, or a field of
\* it changes), in any interleaving of the writers, the stored row has
\* daily_remaining + daily_spend = brand.daily_budget and
\* monthly_remaining + monthly_spend = brand.monthly_budget.
C3_RemainingConsistent ==
    [][\A k \in DOMAIN budget_summary' :
          (\/ k \notin DOMAIN budget_summary
           \/ budget_summary'[k] # budget_summary[k])
          => RowConsistent(k)']_vars

---------------------------------------------------------------------------
(* The evaluators on their own (SpecEval): can_run_now and                 *)
(* is_within_dayparting_window asked of every campaign at instants across  *)
(* the run, while spends on campaign 2 use up the budget of brand 1.       *)

\* Campaign 1: Monday 06-17, Wednesday 00-11 and 18-23, and a schedule for
\* Tuesday that is switched off.
MixedWeek ==
    {ScheduleRow(0, 6, 17, TRUE), ScheduleRow(1, 0, 23, FALSE),
     ScheduleRow(2, 0, 11, TRUE), ScheduleRow(2, 18, 23, TRUE)}

\* Brand 1 five hours west of UTC; campaign 1 of brand 1 with either value of
\* the manual switch and any status; campaign 2 of brand 1 always in window;
\* campaign 3 of brand 2 without a schedule.
InitEval ==
    /\ now = 0
    /\ brand = (1 :> BrandRow(10000, 15000, -5, TRUE))
             @@ (2 :> BrandRow(10000, 20000, 0, TRUE))
    /\ \E st \in STATUS_CHOICES, active \in BOOLEAN :
          campaign = (1 :> CampaignRow(1, st, active))
                  @@ (2 :> CampaignRow(1, "ACTIVE", TRUE))
                  @@ (3 :> CampaignRow(2, "ACTIVE", TRUE))
    /\ dayparting_schedule = (1 :> MixedWeek) @@ (2 :> AllWeek) @@ (3 :> {})
    /\ InitLedger
    /\ InitHandlers

\* The instants asked about: every twelve hours of the run.
Instants == {12 * h : h \in 0 .. (2 * (MaxDate + 1) - 1)}

\* The evaluators are asked between two runs of record_spend.
NextEval ==
    \/ /\ Quiet
       /\ \E c \in Campaigns, check_time \in Instants :
            Campaign_can_run_now(c, check_time)
    \/ /\ Quiet
       /\ \E c \in Campaigns, check_time \in Instants :
            Campaign_is_within_dayparting_window(c, check_time)
    \/ Quiet /\ record_spend_start(1, 1, 2, 6000, NoneDate)
    \/ record_spend_step(1)
    \/ Quiet /\ Tick

SpecEval == InitEval /\ [][NextEval]_vars

\* The brand-local weekday and hour of instant t for campaign c.
LocalWeekday(c, t) == ((t + brand[campaign[c].brand].utc_offset) \div 24) % 7

LocalHour(c, t) == (t + brand[campaign[c].brand].utc_offset) % 24

\* Campaign c has no switched-on schedule for the brand-local weekday of t.
NoScheduleThatDay(c, t) ==
    ~ \E s \in dayparting_schedule[c] :
          s.is_active /\ s.day_of_week = LocalWeekday(c, t)

\* C5: is_within_dayparting_window is fail-closed: asked of any campaign at
\* any instant for whose brand-local weekday the campaign has no schedule
\* with is_active, it answers false.
C5_FailClosed ==
    [][(/\ response' # response
        /\ response'.view = "is_within_dayparting_window"
        /\ NoScheduleThatDay(response'.campaign_id, response'.at))
       => response'.is_within_dayparting = FALSE]_vars

\* Campaign 1, which has schedules, was asked about an instant of a day
\* without one, and the answer was false.
C5_Witness ==
    /\ response.view = "is_within_dayparting_window"
    /\ response.campaign_id = 1
    /\ NoScheduleThatDay(1, response.at)
    /\ ~response.is_within_dayparting

\* The three conditions of can_run_now, read off the tables.
SwitchedOn(c) == campaign[c].is_active

BudgetLeftToday(c) ==
    LET k == <<campaign[c].brand, now \div 24>>
    IN  k \in DOMAIN budget_summary =>
            /\ budget_summary[k].daily_remaining > 0
            /\ budget_summary[k].monthly_remaining > 0

InWindow(c, t) ==
    \E s \in dayparting_schedule[c] :
        /\ s.is_active
        /\ s.day_of_week = LocalWeekday(c, t)
        /\ s.start_hour <= LocalHour(c, t)
        /\ LocalHour(c, t) <= s.end_hour

\* C7: can_run_now, asked of any campaign at any instant, answers true
\* exactly when is_active is true and the brand has budget remaining for
\* today and the instant is within the dayparting window (so with is_active
\* false the answer is false whatever the status), and it leaves every
\* status as it was.
C7_CanRunNow ==
    [][(/\ response' # response
        /\ response'.view = "can_run_now")
       => /\ response'.can_run_now =
                (/\ SwitchedOn(response'.campaign_id)
                 /\ BudgetLeftToday(response'.campaign_id)
                 /\ InWindow(response'.campaign_id, response'.at))
          /\ UNCHANGED campaign]_vars

\* Campaign 1 with the manual switch off and status ACTIVE, budget left and
\* the instant within its window: the answer was false.
C7_Witness ==
    /\ response.view = "can_run_now"
    /\ response.campaign_id = 1
    /\ ~SwitchedOn(1)
    /\ campaign[1].status = "ACTIVE"
    /\ BudgetLeftToday(1)
    /\ InWindow(1, response.at)
    /\ ~response.can_run_now

---------------------------------------------------------------------------
(* The callers of activate (SpecActivate): the method on its own and the   *)
(* toggle view, with spends on campaign 2 running beside them and the      *)
(* clock moving between two runs.                                          *)

\* The tables of InitEval.
InitActivate == InitEval

NextActivate ==
    \/ \E c \in Campaigns : Campaign_activate(c)
    \/ \E campaign_id \in {0, 1}, action \in {"activate", "deactivate", "pause"} :
            CampaignToggleView_post(campaign_id, action)
    \/ CampaignToggleView_activate
    \/ record_spend_start(1, 1, 2, 6000, NoneDate)
    \/ record_spend_step(1)
    \/ Quiet /\ Tick

SpecActivate == InitActivate /\ [][NextActivate]_vars

\* This step is a call of activate() on campaign c: on its own, the toggle
\* view's.
ActivateCalled(c) ==
    \/ /\ response' # response
       /\ response'.view = "activate"
       /\ response'.campaign_id = c
    \/ /\ toggle.pc = "activate"
       /\ toggle.campaign_id = c
       /\ toggle'.pc = "idle"

\* The three conditions of can_run_now at the time of the call.
CanRun(c) == SwitchedOn(c) /\ BudgetLeftToday(c) /\ InWindow(c, now)

\* C6: activate() called on a campaign in any status while can_run_now() is
\* false leaves the status (and every other campaign) unchanged; called while
\* can_run_now() is true it sets the status to ACTIVE; and calling it once
\* more in the state it leaves changes nothing.
C6_ActivateSelfChecking ==
    [][\A c \in Campaigns :
          ActivateCalled(c) =>
              /\ campaign' = IF CanRun(c)
                             THEN [campaign EXCEPT ![c].status = "ACTIVE"]
                             ELSE campaign
              /\ activate(c)' = campaign']_vars

\* activate() was called on campaign 1 while it was paused and could not
\* run: it is still paused.
C6_Witness ==
    /\ response.view = "activate"
    /\ response.campaign_id = 1
    /\ response.at = now
    /\ ~CanRun(1)
    /\ response.new_status \in {"PAUSED_BUDGET", "PAUSED_DAYPART"}
    /\ campaign[1].status = response.new_status

---------------------------------------------------------------------------
(* The summaries on their own (SpecSummary): get_or_create_for_date and    *)
(* has_budget_remaining asked of brand 1 for any date, between spends of   *)
(* brand 1 on the days of the run.                                         *)

\* The tables of InitSeq, campaign 1 ACTIVE.
InitSummary ==
    /\ InitSeq
    /\ campaign[1].status = "ACTIVE"

NextSummary ==
    \/ /\ Quiet
       /\ \E target_date \in Dates :
            BudgetSummary_get_or_create_for_date(1, target_date)
    \/ /\ Quiet
       /\ \E check_date \in Dates : Brand_has_budget_remaining(1, check_date)
    \/ /\ Quiet
       /\ \E amount \in {4000, 6000} :
            record_spend_start(1, 1, 1, amount, NoneDate)
    \/ record_spend_step(1)
    \/ Quiet /\ Tick

SpecSummary == InitSummary /\ [][NextSummary]_vars

\* The rows this step adds to the summary table.
Created == DOMAIN budget_summary' \ DOMAIN budget_summary

\* This step is a call of get_or_create_for_date on its own.
GetOrCreateCalled ==
    /\ response' # response
    /\ response'.view = "get_or_create_for_date"

\* C11: a BudgetSummary that get_or_create_for_date creates for (brand, date)
\* has monthly_spend equal to the sum of the amounts of the brand's
\* SpendRecords dated from the first day of the date's month through the
\* date (0 when there are none); a summary that exists is returned as it is
\* and the table is left unchanged.
C11_MonthlySeed ==
    [][/\ \A k \in Created :
            budget_summary'[k].monthly_spend = MonthToDate(k[1], k[2])
       /\ GetOrCreateCalled =>
            LET k == <<response'.brand_id, response'.date>>
            IN  /\ response'.summary = budget_summary'[k]
                /\ k \in DOMAIN budget_summary =>
                        /\ budget_summary' = budget_summary
                        /\ ~response'.created]_vars

\* A summary was created for a date with records earlier in its month.
C11_Witness ==
    /\ response.view = "get_or_create_for_date"
    /\ response.created
    /\ response.summary.monthly_spend > 0
    /\ \E r \in BagToSet(spend_record) :
            r.brand = response.brand_id /\ r.spend_date < response.date
    /\ \E r \in BagToSet(spend_record) :
            r.brand = response.brand_id /\ r.spend_date > response.date

\* C12 as stated: a newly created BudgetSummary has daily_spend = 0,
\* daily_remaining = brand.daily_budget and monthly_remaining =
\* brand.monthly_budget, also when SpendRecords exist for that month.
C12_RemainingSeededToBudgets ==
    [][\A k \in Created :
          /\ budget_summary'[k].daily_spend = 0
          /\ budget_summary'[k].daily_remaining = brand[k[1]].daily_budget
          /\ budget_summary'[k].monthly_remaining
                = brand[k[1]].monthly_budget]_vars

\* C12 amended: a newly created BudgetSummary has daily_spend = 0,
\* daily_remaining = brand.daily_budget and monthly_remaining =
\* brand.monthly_budget less the month-to-date sum of the brand's
\* SpendRecords it was seeded with (so brand.monthly_budget only when there
\* are none).
C12_RemainingSeeded ==
    [][\A k \in Created :
          /\ budget_summary'[k].daily_spend = 0
          /\ budget_summary'[k].daily_remaining = brand[k[1]].daily_budget
          /\ budget_summary'[k].monthly_remaining
                = brand[k[1]].monthly_budget - MonthToDate(k[1], k[2])]_vars

\* A summary was created in a month with records: its monthly_remaining is
\* below the monthly budget.
C12_Witness ==
    /\ response.view = "get_or_create_for_date"
    /\ response.created
    /\ response.summary.daily_spend = 0
    /\ response.summary.monthly_remaining < brand[response.brand_id].monthly_budget

\* C13: has_budget_remaining(brand, date) answers true exactly when there is
\* no BudgetSummary for (brand, date) or the one there has daily_remaining > 0
\* and monthly_remaining > 0, and it leaves the summary table as it was.
C13_HasBudgetRemaining ==
    [][(/\ response' # response
        /\ response'.view = "has_budget_remaining")
       => LET k == <<response'.brand_id, response'.date>>
          IN  /\ response'.result =
                    (\/ k \notin DOMAIN budget_summary
                     \/ /\ budget_summary[k].daily_remaining > 0
                        /\ budget_summary[k].monthly_remaining > 0)
              /\ UNCHANGED budget_summary]_vars

\* The daily budget of the date asked about is spent to the cent, the monthly
\* budget is not: the answer was false.
C13_Witness ==
    /\ response.view = "has_budget_remaining"
    /\ <<response.brand_id, response.date>> \in DOMAIN budget_summary
    /\ budget_summary[<<response.brand_id, response.date>>].daily_remaining = 0
    /\ budget_summary[<<response.brand_id, response.date>>].monthly_remaining > 0
    /\ ~response.result

---------------------------------------------------------------------------
(* The sweeps one run at a time (SpecSweeps): a run ends before the next   *)
(* handler starts; spends on campaign 2 use up the budget of brand 1 and   *)
(* the clock moves between two runs.                                       *)

\* Brand 1 five hours west of UTC with campaign 1 (mixed schedules, any
\* status, either value of the manual switch) and campaign 2 (ACTIVE, always
\* in window); brand 2, switched off, with campaign 3, which has no schedule
\* and is paused.
InitSweeps ==
    /\ now = 0
    /\ brand = (1 :> BrandRow(10000, 15000, -5, TRUE))
             @@ (2 :> BrandRow(10000, 20000, 0, FALSE))
    /\ \E st \in STATUS_CHOICES, active \in BOOLEAN :
          campaign = (1 :> CampaignRow(1, st, active))
                  @@ (2 :> CampaignRow(1, "ACTIVE", TRUE))
                  @@ (3 :> CampaignRow(2, "PAUSED_BUDGET", TRUE))
    /\ dayparting_schedule = (1 :> MixedWeek) @@ (2 :> AllWeek) @@ (3 :> {})
    /\ InitLedger
    /\ InitHandlers

NextSweeps ==
    \/ Quiet /\ \E kind \in Sweeps : sweep_start(kind)
    \/ sweep_step
    \/ Quiet /\ record_spend_start(1, 1, 2, 10000, NoneDate)
    \/ record_spend_step(1)
    \/ Quiet /\ Tick

SpecSweeps == InitSweeps /\ [][NextSweeps]_vars

\* This step ends a run of the sweep.
RunEnds(kind) == sweep[kind].pc # "idle" /\ sweep'[kind].pc = "idle"

\* This step is one of the sweep.
SweepSteps(kind) == sweep'[kind] # sweep[kind]

\* The status the dayparting sweep is to leave campaign c with, st being its
\* status before the run.
AfterDayparting(c, st) ==
    IF InWindow(c, now) /\ st = "PAUSED_DAYPART" /\ BudgetLeftToday(c)
    THEN "ACTIVE"
    ELSE IF ~InWindow(c, now) /\ st = "ACTIVE" THEN "PAUSED_DAYPART"
    ELSE st

\* C17: one run of the dayparting sweep visits every campaign with is_active;
\* one within its window, PAUSED_DAYPART and with budget remaining becomes
\* ACTIVE, one outside its window and ACTIVE becomes PAUSED_DAYPART, and
\* every other one, those with is_active false among them, keeps its status.
C17_DaypartingSweep ==
    [][/\ RunEnds("dayparting") =>
            /\ DOMAIN sweep["dayparting"].loaded = {c \in Campaigns : SwitchedOn(c)}
            /\ \A c \in DOMAIN sweep["dayparting"].loaded :
                  campaign'[c].status
                    = AfterDayparting(c, sweep["dayparting"].loaded[c])
       /\ SweepSteps("dayparting") =>
            \A c \in Campaigns :
                (~SwitchedOn(c) \/ c \in sweep'["dayparting"].todo)
                    => campaign'[c] = campaign[c]]_vars

\* The run has paused campaign 1, which was ACTIVE and is outside its window,
\* and has campaigns left to visit.
C17_Witness ==
    /\ sweep["dayparting"].pc = "check"
    /\ 1 \in DOMAIN sweep["dayparting"].loaded
    /\ sweep["dayparting"].loaded[1] = "ACTIVE"
    /\ sweep["dayparting"].c # 1
    /\ ~InWindow(1, now)
    /\ campaign[1].status = "PAUSED_DAYPART"

\* The status the budget sweep is to leave campaign c with, st being its
\* status before the run.
AfterBudget(c, st) ==
    IF ~BudgetLeftToday(c) /\ st = "ACTIVE" THEN "PAUSED_BUDGET"
    ELSE IF BudgetLeftToday(c) /\ st = "PAUSED_BUDGET" /\ InWindow(c, now)
    THEN "ACTIVE"
    ELSE st

\* C18: one run of the budget sweep visits every campaign with is_active and
\* status ACTIVE or PAUSED_BUDGET; an ACTIVE one whose brand has no budget
\* remaining becomes PAUSED_BUDGET, a PAUSED_BUDGET one whose brand has budget
\* remaining and which is within its window becomes ACTIVE, and every other
\* campaign, those PAUSED_DAYPART or INACTIVE among them, keeps its status.
C18_BudgetSweep ==
    [][/\ RunEnds("budget") =>
            /\ DOMAIN sweep["budget"].loaded =
                  {c \in Campaigns :
                      /\ SwitchedOn(c)
                      /\ campaign[c].status \in {"ACTIVE", "PAUSED_BUDGET"}}
            /\ \A c \in DOMAIN sweep["budget"].loaded :
                  campaign'[c].status = AfterBudget(c, sweep["budget"].loaded[c])
       /\ SweepSteps("budget") =>
            \A c \in Campaigns :
                (\/ ~SwitchedOn(c)
                 \/ c \in sweep'["budget"].todo
                 \/ campaign[c].status \in {"PAUSED_DAYPART", "INACTIVE"})
                    => campaign'[c] = campaign[c]]_vars

\* The run has set campaign 1 back to ACTIVE, which was PAUSED_BUDGET with
\* budget remaining and within its window, and has campaigns left to visit.
C18_Witness ==
    /\ sweep["budget"].pc = "check"
    /\ 1 \in DOMAIN sweep["budget"].loaded
    /\ sweep["budget"].loaded[1] = "PAUSED_BUDGET"
    /\ sweep["budget"].c # 1
    /\ campaign[1].status = "ACTIVE"

---------------------------------------------------------------------------
(* The budget cycle: spends, the daily reset and the sweeps, one handler   *)
(* at a time, over the days of the run.                                    *)

\* Schedules on Monday to Friday, 06:00 to 17:59 brand-local.
WorkWeek == {ScheduleRow(d, 6, 17, TRUE) : d \in 0 .. 4}

\* Brand 1 with daily budget 100.00, five hours west of UTC; campaign 1 of
\* brand 1 ACTIVE on the working days; campaign 2 of brand 1 always in window.
InitCycle ==
    /\ now = 0
    /\ brand = (1 :> BrandRow(10000, 15000, -5, TRUE))
             @@ (2 :> BrandRow(10000, 20000, 0, FALSE))
    /\ campaign = (1 :> CampaignRow(1, "ACTIVE", TRUE))
               @@ (2 :> CampaignRow(1, "ACTIVE", TRUE))
               @@ (3 :> CampaignRow(2, "PAUSED_BUDGET", TRUE))
    /\ dayparting_schedule = (1 :> WorkWeek) @@ (2 :> AllWeek) @@ (3 :> {})
    /\ InitLedger
    /\ InitHandlers

NextCycle ==
    \/ Quiet /\ \E amount \in {4000, 10000} :
                    record_spend_start(1, 1, 1, amount, NoneDate)
    \/ record_spend_step(1)
    \/ Quiet /\ reset_start("daily")
    \/ reset_step
    \/ Quiet /\ sweep_start("budget")
    \/ update_campaign_status_check
    \/ sweep_activate("budget")
    \/ Quiet /\ Tick

SpecCycle == InitCycle /\ [][NextCycle]_vars

\* This step is the return of a record_spend of the whole daily budget, the
\* only spend of its brand that day, for a campaign that is ACTIVE.
SpendsWholeDay(w) ==
    /\ task[w].pc = "check_budget"
    /\ task'[w].pc = "idle"
    /\ task[w].amount = brand[task[w].brand_id].daily_budget
    /\ DailyTotal(task[w].brand_id, task[w].spend_date) = task[w].amount
    /\ campaign[task[w].campaign_id].status = "ACTIVE"

\* This step ends a run of the daily reset.
DailyResetEnds ==
    /\ reset_job.pc # "idle"
    /\ reset_job.kind = "daily"
    /\ reset_job'.pc = "idle"

\* Today's summary of brand b shows a whole daily budget and money left in
\* the month.
FreshDay(b) ==
    LET k == <<b, now \div 24>>
    IN  /\ k \in DOMAIN budget_summary
        /\ budget_summary[k].daily_spend = 0
        /\ budget_summary[k].daily_remaining = brand[b].daily_budget
        /\ budget_summary[k].monthly_remaining > 0

\* C14: a spend of the whole daily budget, the day's only one, on an ACTIVE
\* campaign leaves daily_remaining = 0 and the campaign PAUSED_BUDGET; at
\* the end of a daily reset today's summary of every active brand has
\* daily_spend = 0 and daily_remaining = daily_budget; and a budget sweep
\* that runs within the window of a campaign it found PAUSED_BUDGET, with the
\* day reset and the monthly budget not exhausted, leaves it ACTIVE.
C14_BudgetCycle ==
    [][/\ \A w \in Workers :
            SpendsWholeDay(w) =>
                /\ budget_summary'[<<task[w].brand_id, task[w].spend_date>>]
                        .daily_remaining = 0
                /\ campaign'[task[w].campaign_id].status = "PAUSED_BUDGET"
       /\ DailyResetEnds =>
            \A b \in Brands :
                brand[b].is_active =>
                    /\ <<b, now \div 24>> \in DOMAIN budget_summary'
                    /\ budget_summary'[<<b, now \div 24>>].daily_spend = 0
                    /\ budget_summary'[<<b, now \div 24>>].daily_remaining =
                            brand[b].daily_budget
       /\ RunEnds("budget") =>
            \A c \in DOMAIN sweep["budget"].loaded :
                ( /\ sweep["budget"].loaded[c] = "PAUSED_BUDGET"
                  /\ InWindow(c, now)
                  /\ FreshDay(campaign[c].brand) )
                => campaign'[c].status = "ACTIVE"]_vars

\* The cycle has run: yesterday's budget of brand 1 was spent to the cent,
\* today's summary is fresh, and campaign 1 is ACTIVE again.
C14_Witness ==
    /\ Quiet
    /\ now \div 24 >= 1
    /\ <<1, (now \div 24) - 1>> \in DOMAIN budget_summary
    /\ budget_summary[<<1, (now \div 24) - 1>>].daily_remaining = 0
    /\ DailyTotal(1, (now \div 24) - 1) = brand[1].daily_budget
    /\ FreshDay(1)
    /\ InWindow(1, now)
    /\ campaign[1].status = "ACTIVE"

---------------------------------------------------------------------------
(* A campaign without dayparting schedules, under every handler that may   *)
(* write a status.                                                         *)

\* Campaign 1 of brand 1 has no schedule and any status; campaign 2 of
\* brand 1 is always in window; brand 1 has its whole budget.
InitUnscheduled ==
    /\ now = 0
    /\ brand = (1 :> BrandRow(10000, 15000, 0, TRUE))
             @@ (2 :> BrandRow(10000, 20000, 0, FALSE))
    /\ \E st \in STATUS_CHOICES :
          campaign = (1 :> CampaignRow(1, st, TRUE))
                  @@ (2 :> CampaignRow(1, "ACTIVE", TRUE))
                  @@ (3 :> CampaignRow(2, "PAUSED_BUDGET", TRUE))
    /\ dayparting_schedule = (1 :> {}) @@ (2 :> AllWeek) @@ (3 :> {})
    /\ InitLedger
    /\ InitHandlers

NextUnscheduled ==
    \/ Quiet /\ \E kind \in Sweeps : sweep_start(kind)
    \/ sweep_step
    \/ Quiet /\ \E kind \in {"daily", "monthly"} : reset_start(kind)
    \/ reset_step
    \/ Quiet /\ record_spend_start(1, 1, 1, 10000, NoneDate)
    \/ record_spend_step(1)
    \/ Quiet /\ Campaign_activate(1)
    \/ Quiet /\ Tick

SpecUnscheduled == InitUnscheduled /\ [][NextUnscheduled]_vars

\* C15: a campaign that has no dayparting schedule and is not ACTIVE is not
\* ACTIVE after any step of a sweep, a reset, a spend recording or a call of
\* activate.
C15_NoScheduleNeverActive ==
    [][\A c \in Campaigns :
          (dayparting_schedule[c] = {} /\ campaign[c].status # "ACTIVE")
          => campaign'[c].status # "ACTIVE"]_vars

\* The budget sweep has visited campaign 1, found PAUSED_BUDGET with the whole
\* budget of the day remaining, and has left it paused.
C15_Witness ==
    /\ sweep["budget"].pc = "check"
    /\ sweep["budget"].c = 2
    /\ 1 \in DOMAIN sweep["budget"].loaded
    /\ sweep["budget"].loaded[1] = "PAUSED_BUDGET"
    /\ dayparting_schedule[1] = {}
    /\ BudgetLeftToday(1)
    /\ SwitchedOn(1)
    /\ brand[1].is_active
    /\ campaign[1].status = "PAUSED_BUDGET"

---------------------------------------------------------------------------
(* The writers of Campaign.status and of the manual switch.                *)

NextStatus ==
    \/ Quiet /\ \E kind \in Sweeps : sweep_start(kind)
    \/ sweep_step
    \/ Quiet /\ reset_start("daily")
    \/ reset_step
    \/ Quiet /\ record_spend_start(1, 1, 1, 10000, NoneDate)
    \/ record_spend_step(1)
    \/ Quiet /\ \E action \in {"activate", "deactivate"} :
                    CampaignToggleView_post(1, action)
    \/ CampaignToggleView_activate
    \/ Quiet /\ \E value \in BOOLEAN : Campaign_set_is_active(1, value)
    \/ Quiet /\ Tick

SpecStatus == InitSweeps /\ [][NextStatus]_vars

\* This step is the deactivate action of the toggle view on campaign c.
Deactivates(c) ==
    /\ response'.view = "toggle"
    /\ response'.code = 200
    /\ response'.campaign_id = c
    /\ response'.new_status = "INACTIVE"
    /\ toggle.pc = "idle"
    /\ UNCHANGED <<task, reset_job, sweep, toggle>>
    /\ campaign'[c].is_active = campaign[c].is_active

---------------------------------------------------------------------------
(* The daily reset as a whole, under SpecCycle.                            *)

\* C19: at the end of a run of the daily reset, today's summary of every
\* active brand exists with daily_spend = 0, and every campaign of such a
\* brand that is PAUSED_BUDGET and can run now is ACTIVE, whether or not the
\* summary showed a spend before the run.
C19_DailyResetReactivates ==
    [][DailyResetEnds =>
          \A b \in Brands :
              brand[b].is_active =>
                  /\ <<b, now \div 24>> \in DOMAIN budget_summary'
                  /\ budget_summary'[<<b, now \div 24>>].daily_spend = 0
                  /\ \A c \in Campaigns :
                        ( /\ campaign[c].brand = b
                          /\ campaign[c].status = "PAUSED_BUDGET"
                          /\ CanRun(c)' )
                        => campaign'[c].status = "ACTIVE"]_vars

---------------------------------------------------------------------------
(* The sweeps with failures: while a campaign is visited, an exception     *)
(* (a database error, say) may leave the loop.                             *)

NextSweepFailures ==
    \/ NextSweeps
    \/ \E kind \in Sweeps : sweep_raise(kind)
    \/ \E kind \in Sweeps : sweep_retry(kind)

SpecSweepFailures == InitSweeps /\ [][NextSweepFailures]_vars

\* The campaign whose visit raised in this step, if one did.
Failed(kind) ==
    IF sweep'[kind].result \in {"retry", "failed"} THEN {sweep[kind].c} ELSE {}

\* C20: when a run of a sweep ends, every campaign it loaded, but one whose
\* visit raised an error, has the status the sweep is to give it.
C20_FailuresIsolated ==
    [][/\ RunEnds("dayparting") =>
            \A c \in DOMAIN sweep["dayparting"].loaded \ Failed("dayparting") :
                campaign'[c].status =
                    AfterDayparting(c, sweep["dayparting"].loaded[c])
       /\ RunEnds("budget") =>
            \A c \in DOMAIN sweep["budget"].loaded \ Failed("budget") :
                campaign'[c].status =
                    AfterBudget(c, sweep["budget"].loaded[c])]_vars

---------------------------------------------------------------------------
(* record_spend with inputs it cannot use, and with failures on the way.   *)

\* The amounts of the invocations: a refund, nothing, 60.00, and text that is
\* no number.
InputAmounts == {-500, 0, 6000, UnparsableAmount}

\* The spend_datetime of the invocations: none, or text that is no date.
InputDatetimes == {NoneDate, MalformedDatetime}

NextInput ==
    \/ /\ Quiet
       /\ \E ids \in SeqIds, amount \in InputAmounts,
             spend_datetime \in InputDatetimes :
                record_spend_start(1, ids[1], ids[2], amount, spend_datetime)
    \/ record_spend_step(1)
    \/ record_spend_raise(1)
    \/ Quiet /\ Tick

SpecInput == InitSeq /\ [][NextInput]_vars

\* The arguments are bad input, or name nothing that can take a spend.
BadInput(brand_id, campaign_id, amount, spend_datetime) ==
    \/ amount = UnparsableAmount
    \/ amount <= 0
    \/ spend_datetime = MalformedDatetime
    \/ Unresolvable(brand_id, campaign_id)

\* C21: an invocation of record_spend with a non-positive or unparsable
\* amount, a malformed spend_datetime, or ids that name no active brand and
\* campaign of it, ends in a failure in its first step, with no retry
\* scheduled.
C21_BadInputNeverRetried ==
    [][\A w \in Workers, ids \in SeqIds, amount \in InputAmounts,
          spend_datetime \in InputDatetimes :
          (/\ BadInput(ids[1], ids[2], amount, spend_datetime)
           /\ record_spend_start(w, ids[1], ids[2], amount, spend_datetime))
          => /\ task'[w].pc = "idle"
             /\ task'[w].result \in {"invalid", "failed"}]_vars

---------------------------------------------------------------------------
(* Every task with failures and the retries its except clause asks for.    *)

NextRetries ==
    \/ Quiet /\ \E kind \in Sweeps : sweep_start(kind)
    \/ sweep_step
    \/ \E kind \in Sweeps : sweep_raise(kind)
    \/ Quiet /\ \E kind \in Sweeps : sweep_retry(kind)
    \/ Quiet /\ \E kind \in {"daily", "monthly"} : reset_start(kind)
    \/ reset_step
    \/ reset_raise
    \/ Quiet /\ reset_retry
    \/ Quiet /\ record_spend_start(1, 1, 1, 10000, NoneDate)
    \/ record_spend_step(1)
    \/ record_spend_raise(1)

SpecRetries == InitCycle /\ [][NextRetries]_vars

\* C22: no attempt of a sweep or reset is a retry beyond the third, an
\* attempt that fails is followed by a scheduled retry exactly when it was
\* not the third retry and otherwise by the task's failure; a record_spend
\* that fails has failed for good, with no retry scheduled at all.
C22_RetriesBounded ==
    /\ [](/\ \A kind \in Sweeps : sweep[kind].retries <= 3
          /\ reset_job.retries <= 3
          /\ \A w \in Workers : task[w].result # "retry")
    /\ [][/\ \A kind \in Sweeps :
                (sweep[kind].pc # "idle" /\ sweep'[kind].result # "none")
                => /\ sweep'[kind].pc = "idle"
                   /\ sweep'[kind].result =
                        IF sweep[kind].retries = 3 THEN "failed" ELSE "retry"
          /\ (reset_job.pc # "idle" /\ reset_job'.result # "none")
                => /\ reset_job'.pc = "idle"
                   /\ reset_job'.result =
                        IF reset_job.retries = 3 THEN "failed" ELSE "retry"
          /\ \A kind \in Sweeps :
                sweep[kind].result = "failed" => sweep'[kind].retries = 0
          /\ reset_job.result = "failed" => reset_job'.retries = 0]_vars

\* The budget sweep, a reset and a record_spend have each ended in failure,
\* the first two after their third retry.
C22_Witness ==
    /\ sweep["budget"].result = "failed"
    /\ reset_job.result = "failed"
    /\ task[1].result = "failed"

---------------------------------------------------------------------------
(* Each sweep and reset run again on the state it has left.                *)

\* tasks.py 25-38: the body of the loop of check_campaign_dayparting for
\* campaign c, loaded with the given status: the campaign table afterwards
check_campaign_dayparting_body(c, status) ==
    IF is_within_dayparting_window(c, now)
    THEN IF /\ status = "PAUSED_DAYPART"
            /\ has_budget_remaining(campaign[c].brand, utc_date(now))
         THEN activate(c)
         ELSE campaign
    ELSE IF status = "ACTIVE" THEN pause_for_dayparting(c) ELSE campaign

\* tasks.py 62-75: the body of the loop of update_campaign_status for
\* campaign c, loaded with the given status: the campaign table afterwards
update_campaign_status_body(c, status) ==
    LET has_budget == has_budget_remaining(campaign[c].brand, utc_date(now))
    IN  IF ~has_budget /\ status = "ACTIVE" THEN pause_for_budget(c)
        ELSE IF /\ has_budget
                /\ status = "PAUSED_BUDGET"
                /\ is_within_dayparting_window(c, now)
        THEN activate(c)
        ELSE campaign

sweep_body(kind, c, status) ==
    IF kind = "dayparting" THEN check_campaign_dayparting_body(c, status)
    ELSE update_campaign_status_body(c, status)

NextTwice ==
    \/ Quiet /\ \E kind \in Sweeps : sweep_start(kind)
    \/ sweep_step
    \/ Quiet /\ \E kind \in {"daily", "monthly"} : reset_start(kind)
    \/ reset_step
    \/ Quiet /\ record_spend_start(1, 1, 1, 10000, NoneDate)
    \/ record_spend_step(1)
    \/ Quiet /\ Tick

SpecTwice == InitCycle /\ [][NextTwice]_vars

\* This step ends the visit of a campaign by the sweep.
VisitEnds(kind) ==
    /\ sweep[kind].pc \in {"check", "activate"}
    /\ sweep'[kind] # sweep[kind]
    /\ ~(sweep[kind].pc = "check" /\ sweep'[kind].pc = "activate")

\* This step ends a run of a reset job.
ResetEnds == reset_job.pc # "idle" /\ reset_job'.pc = "idle"

\* C23: each visit of a sweep does what the body of its loop does, and in
\* the state a run of the sweep has left, with the clock where it was, that
\* body changes no campaign; in the state a run of a reset has left, today's
\* summary of every active brand exists and shows nothing to reset, so that
\* a second run writes no summary and reaches no campaign.
C23_SweepsIdempotent ==
    [][/\ \A kind \in Sweeps :
            /\ VisitEnds(kind) =>
                 campaign' = sweep_body(kind, sweep[kind].c,
                                        sweep[kind].loaded[sweep[kind].c])
            /\ RunEnds(kind) =>
                 \A c \in sweep_queryset(kind)' :
                     sweep_body(kind, c, campaign[c].status)' = campaign'
       /\ ResetEnds =>
            \A b \in Brands :
                brand[b].is_active =>
                    /\ <<b, utc_date(now)>> \in DOMAIN budget_summary'
                    /\ ~needs_reset(reset_job.kind,
                                    budget_summary'[<<b, utc_date(now)>>])]_vars

\* A run of the dayparting sweep paused campaign 1 outside its window; a
\* later run has loaded it so, has visited it, and has left it as it was.
C23_Witness ==
    /\ sweep["dayparting"].pc = "check"
    /\ sweep["dayparting"].c = 2
    /\ 1 \in DOMAIN sweep["dayparting"].loaded
    /\ sweep["dayparting"].loaded[1] = "PAUSED_DAYPART"
    /\ ~InWindow(1, now)
    /\ campaign[1].status = "PAUSED_DAYPART"

---------------------------------------------------------------------------
(* The two sweeps side by side: each may start while the other is running. *)

NextRace ==
    \/ /\ \A w \in Workers : task[w].pc = "idle"
       /\ \E kind \in Sweeps : sweep_start(kind)
    \/ sweep_step
    \/ Quiet /\ record_spend_start(1, 1, 2, 10000, NoneDate)
    \/ record_spend_step(1)
    \/ Quiet /\ Tick

SpecRace == InitCycle /\ [][NextRace]_vars

\* C24: a step of a sweep that changes the status of a campaign to one of the
\* paused ones finds that campaign ACTIVE: no pause is written over a pause.
C24_AtMostOnePause ==
    [][\A kind \in Sweeps, c \in Campaigns :
          (/\ SweepSteps(kind)
           /\ campaign'[c].status # campaign[c].status
           /\ campaign'[c].status \in {"PAUSED_BUDGET", "PAUSED_DAYPART"})
          => campaign[c].status = "ACTIVE"]_vars

---------------------------------------------------------------------------
(* The dayparting window, hour by hour, for every set of schedules drawn   *)
(* from a pool.                                                            *)

\* Monday 09-17 and 20-22, a switched-off Monday schedule for the whole day,
\* Tuesday 00-05 and the single hour 12.
SchedulePool ==
    {ScheduleRow(0, 9, 17, TRUE), ScheduleRow(0, 20, 22, TRUE),
     ScheduleRow(0, 0, 23, FALSE), ScheduleRow(1, 0, 5, TRUE),
     ScheduleRow(1, 12, 12, TRUE)}

\* Every hour of the run.
Hours == 0 .. (24 * (MaxDate + 1) - 1)

\* Campaign 1 of brand 1, five hours west of UTC, with any schedules of the
\* pool.
InitWindow ==
    /\ now = 0
    /\ brand = (1 :> BrandRow(10000, 15000, -5, TRUE))
             @@ (2 :> BrandRow(10000, 20000, 0, TRUE))
    /\ campaign = (1 :> CampaignRow(1, "ACTIVE", TRUE))
               @@ (2 :> CampaignRow(1, "ACTIVE", TRUE))
               @@ (3 :> CampaignRow(2, "ACTIVE", TRUE))
    /\ \E schedules \in SUBSET SchedulePool :
          dayparting_schedule = (1 :> schedules) @@ (2 :> AllWeek) @@ (3 :> {})
    /\ InitLedger
    /\ InitHandlers

NextWindow ==
    \E check_time \in Hours : Campaign_is_within_dayparting_window(1, check_time)

SpecWindow == InitWindow /\ [][NextWindow]_vars

\* C25: is_within_dayparting_window answers true exactly when some schedule of
\* the campaign that is switched on and of the brand-local weekday has
\* start_hour <= local hour <= end_hour.
C25_WindowInclusiveUnion ==
    [][(/\ response' # response
        /\ response'.view = "is_within_dayparting_window")
       => response'.is_within_dayparting =
            InWindow(response'.campaign_id, response'.at)]_vars

\* Campaign 1 was asked about the end hour of a schedule that alone covers
\* it, beside another schedule of the day, and the answer was true.
C25_Witness ==
    /\ response.view = "is_within_dayparting_window"
    /\ response.campaign_id = 1
    /\ response.is_within_dayparting
    /\ LocalWeekday(1, response.at) = 0
    /\ LocalHour(1, response.at) = 22
    /\ dayparting_schedule[1] =
          {ScheduleRow(0, 9, 17, TRUE), ScheduleRow(0, 20, 22, TRUE)}

---------------------------------------------------------------------------
(* What record_spend leaves alone. *)

\* Two workers running record_spend on the two campaigns of brand 1, each
\* spend of the whole daily budget and dated today.
NextFrame ==
    \/ \E w \in {1, 2}, campaign_id \in {1, 2} :
            record_spend_start(w, 1, campaign_id, 10000, NoneDate)
    \/ \E w \in {1, 2} : record_spend_step(w)
    \/ Quiet /\ Tick

SpecFrame == InitCycle /\ [][NextFrame]_vars

\* C26: a step of record_spend changes the status of no campaign but the one
\* named in the call, and no BudgetSummary but the one of its brand and spend
\* date.
C26_RecordSpendFrame ==
    [][\A w \in Workers : task'[w] # task[w] =>
          IF task[w].pc = "idle"
          THEN campaign' = campaign /\ budget_summary' = budget_summary
          ELSE /\ \A c \in Campaigns \ {task[w].campaign_id} :
                      campaign'[c] = campaign[c]
               /\ \A k \in (DOMAIN budget_summary \cup DOMAIN budget_summary')
                            \ {<<task[w].brand_id, task[w].spend_date>>} :
                      /\ k \in DOMAIN budget_summary
                      /\ k \in DOMAIN budget_summary'
                      /\ budget_summary'[k] = budget_summary[k]]_vars

\* A record_spend on campaign 1 used up the daily budget of brand 1 and
\* paused campaign 1; campaign 2 of the brand is still ACTIVE, and a summary
\* of another date exists.
C26_Witness ==
    /\ task[1].pc = "idle"
    /\ task[1].result = "ok"
    /\ task[1].paused
    /\ campaign[1].status = "PAUSED_BUDGET"
    /\ campaign[2].status = "ACTIVE"
    /\ \E k \in DOMAIN budget_summary :
          /\ k[1] = 1
          /\ budget_summary[k].daily_remaining <= 0
          /\ \E j \in DOMAIN budget_summary : j[1] = 1 /\ j[2] # k[2]

---------------------------------------------------------------------------
(* One spend event, delivered again after an attempt failed. *)

\* One event of 40.00 on campaign 1; any step of an attempt may raise, and
\* the dispatcher delivers the failed event again.
NextRedeliver ==
    \/ /\ Quiet
       /\ spend_record = EmptyBag
       /\ task[1].result = "none"
       /\ record_spend_start(1, 1, 1, 4000, NoneDate)
    \/ record_spend_step(1)
    \/ record_spend_raise(1)
    \/ record_spend_redeliver(1)
    \/ Quiet /\ Tick

SpecRedeliver == InitCycle /\ [][NextRedeliver]_vars

\* C27: when an attempt of an event that was delivered again returns
\* successfully, the event has exactly one SpendRecord and its amount was
\* added once to daily_spend and once to monthly_spend.
C27_RetryAppliesOnce ==
    [][(/\ task[1].pc = "check_budget"
        /\ task[1].deliveries > 0
        /\ task'[1].result = "ok")
       => /\ BagCardinality(spend_record') = 1
          /\ SumBag(spend_record', BagToSet(spend_record')) = task[1].amount
          /\ \A k \in DOMAIN budget_summary' :
                /\ budget_summary'[k].daily_spend =
                      IF k = <<task[1].brand_id, task[1].spend_date>>
                      THEN task[1].amount ELSE 0
                /\ budget_summary'[k].monthly_spend =
                      IF k = <<task[1].brand_id, task[1].spend_date>>
                      THEN task[1].amount ELSE 0]_vars

---------------------------------------------------------------------------
(* A manual deactivate while a sweep or a record_spend is running. *)

\* The toggle view is called on campaign 1 at any moment, also between the
\* steps of a sweep or of a record_spend on that campaign.
NextOverwrite ==
    \/ /\ task[1].pc = "idle"
       /\ toggle.pc = "idle"
       /\ \E kind \in Sweeps : sweep_start(kind)
    \/ sweep_step
    \/ /\ toggle.pc = "idle"
       /\ \A kind \in Sweeps : sweep[kind].pc = "idle"
       /\ record_spend_start(1, 1, 1, 10000, NoneDate)
    \/ record_spend_step(1)
    \/ \E action \in {"activate", "deactivate"} :
            CampaignToggleView_post(1, action)
    \/ CampaignToggleView_activate
    \/ Quiet /\ Tick

SpecOverwrite == InitCycle /\ [][NextOverwrite]_vars

\* C28: a campaign whose status is INACTIVE leaves INACTIVE only by the
\* activate action of the toggle view, whatever sweep or record_spend is
\* running.
C28_DeactivateNotOverwritten ==
    [][\A c \in Campaigns :
          (campaign[c].status = "INACTIVE" /\ campaign'[c].status # "INACTIVE")
            => /\ toggle.pc = "activate"
               /\ toggle.campaign_id = c
               /\ toggle'.pc = "idle"]_vars

---------------------------------------------------------------------------
(* A campaign that is INACTIVE, with every handler run one after the other. *)

NextInactive ==
    \/ Quiet /\ \E kind \in Sweeps : sweep_start(kind)
    \/ sweep_step
    \/ Quiet /\ \E kind \in {"daily", "monthly"} : reset_start(kind)
    \/ reset_step
    \/ Quiet /\ record_spend_start(1, 1, 1, 10000, NoneDate)
    \/ record_spend_step(1)
    \/ Quiet /\ \E action \in {"activate", "deactivate"} :
                    CampaignToggleView_post(1, action)
    \/ CampaignToggleView_activate
    \/ Quiet /\ Tick

SpecInactive == InitSweeps /\ [][NextInactive]_vars

\* C29: with the handlers run one after the other, a step of a sweep, of a
\* reset or of record_spend leaves every INACTIVE campaign INACTIVE, and the
\* step that moves a campaign out of INACTIVE is the activate of the toggle
\* view.
C29_InactiveStaysInactive ==
    [][\A c \in Campaigns : campaign[c].status = "INACTIVE" =>
          /\ (sweep' # sweep \/ reset_job' # reset_job \/ task' # task)
                => campaign'[c].status = "INACTIVE"
          /\ campaign'[c].status # "INACTIVE"
                => toggle.pc = "activate" /\ toggle.campaign_id = c]_vars

\* Campaign 1 is INACTIVE with its switch on and inside its window; the
\* dayparting sweep has visited it and gone on to campaign 2, and the
\* record_spend that used up the daily budget of its brand did not pause it.
C29_Witness ==
    /\ campaign[1].status = "INACTIVE"
    /\ campaign[1].is_active
    /\ InWindow(1, now)
    /\ sweep["dayparting"].pc = "check"
    /\ sweep["dayparting"].c = 2
    /\ sweep["dayparting"].loaded[1] = "INACTIVE"
    /\ task[1].result = "ok"
    /\ ~task[1].paused
    /\ <<1, utc_date(now)>> \in DOMAIN budget_summary
    /\ budget_summary[<<1, utc_date(now)>>].daily_remaining <= 0

---------------------------------------------------------------------------
(* The monthly budget at the start of a new day. *)

\* Spends on campaign 2, the sweeps, the daily reset and the toggle view, one
\* after the other, over the days of a month.
NextNewDay ==
    \/ Quiet /\ \E amount \in {6000, 10000} :
                    record_spend_start(1, 1, 2, amount, NoneDate)
    \/ record_spend_step(1)
    \/ Quiet /\ \E kind \in Sweeps : sweep_start(kind)
    \/ sweep_step
    \/ Quiet /\ reset_start("daily")
    \/ reset_step
    \/ Quiet /\ CampaignToggleView_post(2, "activate")
    \/ CampaignToggleView_activate
    \/ Quiet /\ Tick

SpecNewDay == InitCycle /\ [][NextNewDay]_vars

\* C30: a step that sets a campaign's status to ACTIVE finds the recorded
\* spend of its brand, from the first of the month through today, below the
\* brand's monthly budget.
C30_NoActivationOverMonthlyBudget ==
    [][\A c \in Campaigns :
          (campaign[c].status # "ACTIVE" /\ campaign'[c].status = "ACTIVE")
            => MonthToDate(campaign[c].brand, utc_date(now))
                 < brand[campaign[c].brand].monthly_budget]_vars

---------------------------------------------------------------------------
(* The pause of record_spend and the budget of today. *)

\* C31: when a record_spend pauses its campaign for budget, the brand has no
\* budget remaining today once the step is done, whatever the date of the
\* spend.
C31_PauseMeansNoBudgetToday ==
    [][\A w \in Workers, b \in Brands :
          (/\ task[w].pc = "check_budget"
           /\ task[w].brand_id = b
           /\ task'[w].paused
           /\ campaign'[task[w].campaign_id].status = "PAUSED_BUDGET")
          => ~has_budget_remaining(b, utc_date(now))']_vars

---------------------------------------------------------------------------
(* The daily reset beside spend recording. *)

\* record_spend on campaign 2 and the daily reset, each starting whatever the
\* other is doing; the reset may fail at any step and is then retried.
NextDiscard ==
    \/ \E amount \in {4000, 10000} :
            record_spend_start(1, 1, 2, amount, NoneDate)
    \/ record_spend_step(1)
    \/ reset_start("daily")
    \/ reset_step
    \/ reset_raise
    \/ reset_retry
    \/ Quiet /\ Tick

SpecDiscard == InitCycle /\ [][NextDiscard]_vars

\* C32: whenever no record_spend and no reset is running, the daily_spend of
\* today's summary of every brand is the sum of the brand's SpendRecords
\* dated today.
C32_ResetKeepsTodaysSpend ==
    Quiet =>
        \A b \in Brands :
            <<b, utc_date(now)>> \in DOMAIN budget_summary =>
                budget_summary[<<b, utc_date(now)>>].daily_spend
                    = DailyTotal(b, utc_date(now))

---------------------------------------------------------------------------
(* The sweeps run for ever; the clock stops at the end of the last date and *)
(* the spend log fills, so that from some point on nothing but the sweeps   *)
(* runs.                                                                    *)

\* Each sweep starts whenever its last run is over, also beside the other
\* sweep and beside a record_spend.
NextConverge ==
    \/ \E kind \in Sweeps : sweep_start(kind)
    \/ sweep_step
    \/ Quiet /\ record_spend_start(1, 1, 2, 10000, NoneDate)
    \/ record_spend_step(1)
    \/ Quiet /\ Tick

\* celery.py 20-37: the beat schedule starts each sweep again and again, and
\* a worker carries each run through its loop.
SweepsKeepRunning ==
    /\ \A kind \in Sweeps : WF_vars(sweep_start(kind))
    /\ WF_vars(check_campaign_dayparting_check)
    /\ WF_vars(update_campaign_status_check)
    /\ \A kind \in Sweeps : WF_vars(sweep_activate(kind))

SpecConverge == InitSweeps /\ [][NextConverge]_vars /\ SweepsKeepRunning

\* Campaign c has its switch on and a status other than INACTIVE.
Reconciled(c) == campaign[c].is_active /\ campaign[c].status # "INACTIVE"

\* C33: for a campaign with the switch on and a status other than INACTIVE,
\* if can_run_now is true from some point on the status is ACTIVE from some
\* point on, and if can_run_now is false from some point on the status is
\* PAUSED_BUDGET or PAUSED_DAYPART from some point on.
C33_SweepsConverge ==
    \A c \in Campaigns :
        /\ <>[](Reconciled(c) /\ can_run_now(c, now))
              => <>[](campaign[c].status = "ACTIVE")
        /\ <>[](Reconciled(c) /\ ~can_run_now(c, now))
              => <>[](campaign[c].status \in {"PAUSED_BUDGET", "PAUSED_DAYPART"})

\* The clock has stopped, campaign 1 can run, and the dayparting sweep that
\* loaded it as PAUSED_DAYPART has set it ACTIVE and gone on to campaign 2.
C33_Witness ==
    /\ ~ENABLED Tick
    /\ can_run_now(1, now)
    /\ sweep["dayparting"].pc = "check"
    /\ sweep["dayparting"].c = 2
    /\ sweep["dayparting"].loaded[1] = "PAUSED_DAYPART"
    /\ campaign[1].status = "ACTIVE"

---------------------------------------------------------------------------
(* The spend log: the retention purge and the admin site beside the        *)
(* recording of spends.                                                    *)

\* tasks.py 251: cutoff_date = timezone.now().date() - timedelta(days_to_keep)
cutoff_date(days_to_keep) == utc_date(now) - days_to_keep

\* tasks.py 253-255: SpendRecord.objects.filter(spend_date__lt=cutoff).delete():
\* the table afterwards
purge(cutoff) ==
    [r \in {x \in BagToSet(spend_record) : ~(x.spend_date < cutoff)}
        |-> spend_record[r]]

\* The task cleanup_old_spend_records(days_to_keep) (tasks.py 241-261)
cleanup_old_spend_records(days_to_keep) ==
    /\ spend_record' = purge(cutoff_date(days_to_keep))
    /\ UNCHANGED <<now, brand, campaign, dayparting_schedule, budget_summary,
                   task, reset_job, toggle, response, sweep>>

\* SpendRecordAdmin, change form (admin.py 67-83): amount and spend_date are
\* editable fields; the record r is saved with the values of the form.
SpendRecordAdmin_change(r, amount, spend_date) ==
    /\ r \in BagToSet(spend_record)
    /\ amount >= 0
    /\ spend_record' = (spend_record (-) SetToBag({r}))
            (+) SetToBag({[r EXCEPT !.amount = amount,
                                    !.spend_date = spend_date]})
    /\ UNCHANGED <<now, brand, campaign, dayparting_schedule, budget_summary,
                   task, reset_job, toggle, response, sweep>>

\* SpendRecordAdmin, delete view and the action 'delete selected' that every
\* ModelAdmin has (admin.py 67-68)
SpendRecordAdmin_delete(r) ==
    /\ r \in BagToSet(spend_record)
    /\ spend_record' = spend_record (-) SetToBag({r})
    /\ UNCHANGED <<now, brand, campaign, dayparting_schedule, budget_summary,
                   task, reset_job, toggle, response, sweep>>

\* The days_to_keep of the purges: nothing kept but today, and one day more.
DaysToKeep == {0, 1}

\* Spends of 60.00 on campaign 1 dated today, the purge, the admin's change
\* and delete of a record, and the clock.  No spend starts
\* once a day's summary has counted MaxRecords spends of 60.00.
NextPurge ==
    \/ /\ Quiet
       /\ \A k \in DOMAIN budget_summary :
                budget_summary[k].daily_spend < MaxRecords * 6000
       /\ record_spend_start(1, 1, 1, 6000, NoneDate)
    \/ record_spend_step(1)
    \/ \E days_to_keep \in DaysToKeep : cleanup_old_spend_records(days_to_keep)
    \/ /\ Quiet
       /\ \E r \in BagToSet(spend_record), spend_date \in Dates :
                SpendRecordAdmin_change(r, 4000, spend_date)
    \/ Quiet /\ \E r \in BagToSet(spend_record) : SpendRecordAdmin_delete(r)
    \/ Quiet /\ Tick

SpecPurge == InitSeq /\ [][NextPurge]_vars

\* This step is a purge with cutoff date c: it leaves of the spend log the
\* records dated c or later, each as often as before, and changes neither a
\* summary nor a campaign.
PurgesExactly(c) ==
    /\ \A r \in BagToSet(spend_record) \cup BagToSet(spend_record') :
            CopiesIn(r, spend_record') =
                IF r.spend_date < c THEN 0 ELSE CopiesIn(r, spend_record)
    /\ budget_summary' = budget_summary
    /\ campaign' = campaign

\* C34: a purge deletes exactly the SpendRecords dated before its cutoff
\* and leaves summaries and campaigns alone, and a step that is not a purge
\* removes or changes no SpendRecord.
C34_PurgeOnlyRemovesOld ==
    [][/\ \A days_to_keep \in DaysToKeep :
            cleanup_old_spend_records(days_to_keep)
                => PurgesExactly(utc_date(now) - days_to_keep)
       /\ (\E r \in BagToSet(spend_record) :
                CopiesIn(r, spend_record') < CopiesIn(r, spend_record))
            => \E days_to_keep \in DaysToKeep :
                    PurgesExactly(utc_date(now) - days_to_keep)]_vars


====
